---- MODULE Spec2Model ----
(***************************************************************************)
(* A model of nitpick's dictionary blender and document comparator         *)
(* (src/src/nitpick/blender.py).                                           *)
(*                                                                         *)
(* Python strings are sequences of one-character strings, so that the key  *)
(* codec (quoting, joining, splitting) is computed character by character. *)
(* Python values are tagged pairs <<tag, payload>>:                         *)
(*   <<"n", 0>>      None                                                  *)
(*   <<"i", n>>      an integer (0 is falsy)                               *)
(*   <<"s", chars>>  a string                                              *)
(*   <<"l", elems>>  a list                                                *)
(*   <<"d", pairs>>  a mapping: a sequence of <<key, value>> pairs in      *)
(*                   insertion order, keys unique                          *)
(***************************************************************************)
EXTENDS Integers, Sequences, FiniteSets, TLC

VARIABLES
    \* ---- DictBlender instance ----
    flat,            \* _current_flat_dict: sequence of <<flat key, value>>
    lists,           \* _current_lists: sequence of <<flat key, list payload>>
    extend_lists,    \* constructor option
    separator,       \* constructor option
    flatten_on_add,  \* constructor option
    added,           \* history: the add() calls made so far
    mixed,           \* outcome of the last mix() call
    mixed2,          \* outcome of mix() on a second blender holding the same entries
    \* ---- key codec run ----
    segments,        \* the path segments to encode
    codecSep,        \* separator used for the run
    joined,          \* the flat key built from the segments
    splitOut,        \* what quoted_split returned
    cpc,             \* position of the codec run
    \* ---- comparator run ----
    cmpIn,           \* inputs of compare_with_flatten
    cmpOut,          \* its outcome
    \* ---- reconciler run ----
    rec,             \* arguments and outcome of search_element_by_unique_key
    rec2,            \* outcome of a second call on the merged list of the first
    \* ---- tree writer run ----
    tw,              \* target, change-set and outcome of one application
    tw2,             \* outcome of applying the same change-set once more
    \* ---- document run ----
    doc,             \* one Document, its load cache and what it has read and parsed
    \* ---- merged-style write ----
    mg,              \* position and attempts of one merge_toml_dict call
    \* ---- style inclusion ----
    inc,             \* one Style: the include graph, its fields and the pending calls
    \* ---- fix then check ----
    fx               \* a comparison, the actual document fixed from it and the second comparison

vars == <<flat, lists, extend_lists, separator, flatten_on_add, added, mixed, mixed2,
          segments, codecSep, joined, splitOut, cpc, cmpIn, cmpOut, rec, rec2, tw, tw2,
          doc, mg, inc, fx>>

blenderVars == <<flat, lists, extend_lists, separator, flatten_on_add, added, mixed, mixed2>>
codecVars == <<segments, codecSep, joined, splitOut, cpc>>
cmpVars == <<cmpIn, cmpOut>>
recVars == <<rec, rec2>>
twVars == <<tw, tw2>>
appVars == <<doc, mg, inc, fx>>

(***************************************************************************)
(* Bounds.                                                                 *)
(***************************************************************************)
MaxAdds == 2
MaxSegments == 3
MaxElements == 2
MaxLoads == 3
MaxIncludes == 2

(***************************************************************************)
(* Constants of the program.                                               *)
(***************************************************************************)
\* The size of the cache of @lru_cache() (the default maxsize of functools).
LruMaxSize == 128
\* while attempt < 5 in Style.merge_toml_dict.
AttemptLimit == 5

(***************************************************************************)
(* Characters and strings.                                                 *)
(***************************************************************************)
\* The characters of the model, in code point order.
Alphabet == <<"\"", "#", "$", "'", ".", "@", "a", "b", "c", "k", "p", "x", "y">>

Ord(c) == CHOOSE i \in 1..Len(Alphabet) : Alphabet[i] = c

SINGLE_QUOTE == "'"
DOUBLE_QUOTE == "\""
SEPARATOR_FLATTEN == <<"$", "#", "@">>
SEPARATOR_QUOTED_SPLIT == <<"#", "$", "@">>
DOT == <<".">>

IsQuote(c) == c = SINGLE_QUOTE \/ c = DOUBLE_QUOTE

HasQuote(s) == \E i \in 1..Len(s) : IsQuote(s[i])

\* s[i..] starts with pat
StartsAt(s, pat, i) ==
    /\ i + Len(pat) - 1 <= Len(s)
    /\ \A j \in 1..Len(pat) : s[i + j - 1] = pat[j]

\* Python: pat in s
StrContains(s, pat) == \E i \in 1..(Len(s) + 1) : StartsAt(s, pat, i)

\* Python str comparison: lexicographic by code point
StrLess(s, t) ==
    \/ /\ Len(s) < Len(t)
       /\ \A i \in 1..Len(s) : s[i] = t[i]
    \/ \E i \in 1..Len(s) :
          /\ i <= Len(t)
          /\ \A j \in 1..(i - 1) : s[j] = t[j]
          /\ Ord(s[i]) < Ord(t[i])

RECURSIVE SplitFrom(_, _, _, _)
\* str.split(sep) from position i, cur is the part collected so far
SplitFrom(s, sep, i, cur) ==
    IF i > Len(s) THEN <<cur>>
    ELSE IF StartsAt(s, sep, i)
         THEN <<cur>> \o SplitFrom(s, sep, i + Len(sep), <<>>)
         ELSE SplitFrom(s, sep, i + 1, Append(cur, s[i]))

StrSplit(s, sep) == SplitFrom(s, sep, 1, <<>>)

RECURSIVE ReplaceFrom(_, _, _, _)
\* str.replace(old, new): leftmost, non-overlapping
ReplaceFrom(s, old, new, i) ==
    IF i > Len(s) THEN <<>>
    ELSE IF StartsAt(s, old, i)
         THEN new \o ReplaceFrom(s, old, new, i + Len(old))
         ELSE <<s[i]>> \o ReplaceFrom(s, old, new, i + 1)

StrReplace(s, old, new) == ReplaceFrom(s, old, new, 1)

\* Index of the first quote character of s after position i, 0 if none.
NextQuote(s, i) ==
    IF \E j \in (i + 1)..Len(s) : IsQuote(s[j])
    THEN CHOOSE j \in (i + 1)..Len(s) :
            /\ IsQuote(s[j])
            /\ \A k \in (i + 1)..(j - 1) : ~IsQuote(s[k])
    ELSE 0

RECURSIVE QuotedSub(_, _, _)
\* quoted_regex.sub(remove_quotes, string_): every leftmost match of
\* quote, one or more non-quotes, quote is replaced by its inside, the separator
\* in it replaced by SEPARATOR_QUOTED_SPLIT.
QuotedSub(s, sep, i) ==
    IF i > Len(s) THEN <<>>
    ELSE IF IsQuote(s[i]) /\ NextQuote(s, i) > i + 1
         THEN StrReplace(SubSeq(s, i + 1, NextQuote(s, i) - 1), sep, SEPARATOR_QUOTED_SPLIT)
                 \o QuotedSub(s, sep, NextQuote(s, i) + 1)
         ELSE <<s[i]>> \o QuotedSub(s, sep, i + 1)

\* A variant that forgets to put the separator back into the unquoted parts.
quoted_split_no_restore(s, sep) ==
    IF ~HasQuote(s) THEN StrSplit(s, sep) ELSE StrSplit(QuotedSub(s, sep, 1), sep)

quoted_split(s, sep) ==
    IF ~HasQuote(s)
    THEN StrSplit(s, sep)
    ELSE LET parts == StrSplit(QuotedSub(s, sep, 1), sep)
         IN  [p \in 1..Len(parts) |-> StrReplace(parts[p], SEPARATOR_QUOTED_SPLIT, sep)]

\* _flatten, line 240: a key containing the separator is wrapped in double quotes
QuotedKey(key, sep) ==
    IF StrContains(key, sep) THEN <<DOUBLE_QUOTE>> \o key \o <<DOUBLE_QUOTE>> ELSE key

\* A variant that drops the parent key.
NewKeyWithoutParent(parent_key, key, sep) == QuotedKey(key, sep)

\* _flatten, line 241: an empty parent key is falsy
NewKey(parent_key, key, sep) ==
    IF parent_key # <<>> THEN parent_key \o sep \o QuotedKey(key, sep) ELSE QuotedKey(key, sep)

RECURSIVE JoinFrom(_, _, _, _)
\* the flat key _flatten builds while descending along the path segs
JoinFrom(segs, sep, i, parent_key) ==
    IF i > Len(segs) THEN parent_key
    ELSE JoinFrom(segs, sep, i + 1, NewKey(parent_key, segs[i], sep))

FlattenPath(segs, sep) == JoinFrom(segs, sep, 1, <<>>)

(***************************************************************************)
(* Python values.                                                          *)
(***************************************************************************)
None == <<"n", 0>>
PyInt(n) == <<"i", n>>
PyStr(s) == <<"s", s>>
PyList(elems) == <<"l", elems>>
PyDict(pairs) == <<"d", pairs>>

IsDict(v) == v[1] = "d"
IsList(v) == v[1] = "l"

\* bool(v)
Truthy(v) ==
    CASE v[1] = "n" -> FALSE
      [] v[1] = "i" -> v[2] # 0
      [] OTHER -> Len(v[2]) > 0

\* Mapping operations on the payload of a mapping (insertion ordered).
DictKeys(p) == {p[i][1] : i \in 1..Len(p)}
DictHas(p, k) == \E i \in 1..Len(p) : p[i][1] = k
DictGet(p, k) == p[CHOOSE i \in 1..Len(p) : p[i][1] = k][2]
DictSet(p, k, v) ==
    IF DictHas(p, k)
    THEN [i \in 1..Len(p) |-> IF p[i][1] = k THEN <<k, v>> ELSE p[i]]
    ELSE Append(p, <<k, v>>)

RECURSIVE DictUpdateFrom(_, _, _)
DictUpdateFrom(p, q, i) ==
    IF i > Len(q) THEN p ELSE DictUpdateFrom(DictSet(p, q[i][1], q[i][2]), q, i + 1)

\* p.update(q): existing keys keep their position, new keys are appended
DictUpdate(p, q) == DictUpdateFrom(p, q, 1)

\* dict(items)
DictFromItems(items) == DictUpdate(<<>>, items)

RECURSIVE PyEq(_, _)
\* a == b: mappings compare regardless of key order, lists element by element
PyEq(a, b) ==
    /\ a[1] = b[1]
    /\ CASE a[1] = "d" ->
              /\ DictKeys(a[2]) = DictKeys(b[2])
              /\ \A k \in DictKeys(a[2]) : PyEq(DictGet(a[2], k), DictGet(b[2], k))
         [] a[1] = "l" ->
              /\ Len(a[2]) = Len(b[2])
              /\ \A i \in 1..Len(a[2]) : PyEq(a[2][i], b[2][i])
         [] OTHER -> a[2] = b[2]

(***************************************************************************)
(* DictBlender.                                                            *)
(***************************************************************************)
RECURSIVE FlattenItems(_, _, _, _, _, _)
\* A variant of the loop in which a value that is no list clears the list
\* accumulated under its key.
FlattenItemsClearing(pairs, i, parent_key, ls, sep, ext) ==
    IF i > Len(pairs) THEN [items |-> <<>>, lists |-> ls]
    ELSE LET key == pairs[i][1]
             value == pairs[i][2]
             new_key == NewKey(parent_key, key, sep)
         IN  IF IsDict(value)
             THEN LET sub == FlattenItems(value[2], 1, new_key, ls, sep, ext)
                      rest == FlattenItems(pairs, i + 1, parent_key, sub.lists, sep, ext)
                  IN  [items |-> DictFromItems(sub.items) \o rest.items, lists |-> rest.lists]
             ELSE IF IsList(value) /\ ext
             THEN LET existing_list == IF DictHas(ls, new_key) THEN DictGet(ls, new_key) ELSE <<>>
                      rest == FlattenItems(pairs, i + 1, parent_key,
                                           DictSet(ls, new_key, existing_list \o value[2]), sep, ext)
                  IN  [items |-> <<<<new_key, <<"ref", new_key>>>>>> \o rest.items,
                       lists |-> rest.lists]
             ELSE LET rest == FlattenItems(pairs, i + 1, parent_key,
                                           SelectSeq(ls, LAMBDA e : e[1] # new_key), sep, ext)
                  IN  [items |-> <<<<new_key, value>>>> \o rest.items, lists |-> rest.lists]

\* The loop of _flatten over dict_.items() from position i. Returns the list
\* `items` and the updated _current_lists. A list value under extend_lists is
\* the list object kept in _current_lists: the item holds <<"ref", new_key>>
\* until the outermost call returns, because a later extension of that object
\* shows in every item that holds it.
FlattenItems(pairs, i, parent_key, ls, sep, ext) ==
    IF i > Len(pairs) THEN [items |-> <<>>, lists |-> ls]
    ELSE LET key == pairs[i][1]
             value == pairs[i][2]
             new_key == NewKey(parent_key, key, sep)
         IN  IF IsDict(value)
             THEN LET sub == FlattenItems(value[2], 1, new_key, ls, sep, ext)
                      rest == FlattenItems(pairs, i + 1, parent_key, sub.lists, sep, ext)
                  IN  [items |-> DictFromItems(sub.items) \o rest.items, lists |-> rest.lists]
             ELSE IF IsList(value) /\ ext
             THEN LET existing_list == IF DictHas(ls, new_key) THEN DictGet(ls, new_key) ELSE <<>>
                      rest == FlattenItems(pairs, i + 1, parent_key,
                                           DictSet(ls, new_key, existing_list \o value[2]), sep, ext)
                  IN  [items |-> <<<<new_key, <<"ref", new_key>>>>>> \o rest.items,
                       lists |-> rest.lists]
             ELSE LET rest == FlattenItems(pairs, i + 1, parent_key, ls, sep, ext)
                  IN  [items |-> <<<<new_key, value>>>> \o rest.items, lists |-> rest.lists]

\* A variant of the list branch that forgets the previously accumulated list.
FlattenOverwritingLists(pairs, ls, sep, ext) ==
    LET r == FlattenItems(pairs, 1, <<>>, <<>>, sep, ext)
        d == DictFromItems(r.items)
    IN  [dict |-> [i \in 1..Len(d) |->
                      IF d[i][2][1] = "ref"
                      THEN <<d[i][1], PyList(DictGet(r.lists, d[i][2][2]))>>
                      ELSE d[i]],
         lists |-> DictUpdate(ls, r.lists)]

\* self._flatten(dict_): the flat mapping and the updated _current_lists
Flatten(pairs, ls, sep, ext) ==
    LET r == FlattenItems(pairs, 1, <<>>, ls, sep, ext)
        d == DictFromItems(r.items)
    IN  [dict |-> [i \in 1..Len(d) |->
                      IF d[i][2][1] = "ref"
                      THEN <<d[i][1], PyList(DictGet(r.lists, d[i][2][2]))>>
                      ELSE d[i]],
         lists |-> r.lists]

RECURSIVE SortedInsert(_, _)
SortedInsert(sorted, item) ==
    IF sorted = <<>> THEN <<item>>
    ELSE IF StrLess(item[1], sorted[1][1]) THEN <<item>> \o sorted
    ELSE <<sorted[1]>> \o SortedInsert(Tail(sorted), item)

RECURSIVE SortFrom(_, _, _)
SortFrom(items, i, acc) ==
    IF i > Len(items) THEN acc ELSE SortFrom(items, i + 1, SortedInsert(acc, items[i]))

\* A variant that leaves the items in insertion order.
SortedItemsNoSort(items) == items

\* sorted(dict_.items()): the keys of a mapping are distinct, so the order is
\* the lexicographic order of the keys
SortedItems(items) == SortFrom(items, 1, <<>>)

Raised == <<"raised", <<>>>>

RECURSIVE SetPath(_, _, _)
\* The inner loop of _unflatten and the assignment after it, on the mapping
\* payload p: walk all_keys[:-1], creating mappings for missing keys, and set
\* all_keys[-1]. Subscripting a value that is not a mapping raises TypeError,
\* which the code does not catch: the result is Raised.
SetPath(p, all_keys, root_value) ==
    IF Len(all_keys) = 1 THEN <<"ok", DictSet(p, all_keys[1], root_value)>>
    ELSE LET key == all_keys[1]
         IN  IF DictHas(p, key)
             THEN IF IsDict(DictGet(p, key))
                  THEN LET r == SetPath(DictGet(p, key)[2], Tail(all_keys), root_value)
                       IN  IF r[1] = "ok" THEN <<"ok", DictSet(p, key, PyDict(r[2]))>> ELSE Raised
                  ELSE Raised
             ELSE LET r == SetPath(<<>>, Tail(all_keys), root_value)
                  IN  <<"ok", DictSet(p, key, PyDict(r[2]))>>

RECURSIVE UnflattenFrom(_, _, _, _)
UnflattenFrom(items, i, sep, acc) ==
    IF i > Len(items) THEN <<"ok", acc>>
    ELSE LET r == SetPath(acc, quoted_split(items[i][1], sep), items[i][2])
         IN  IF r[1] = "ok" THEN UnflattenFrom(items, i + 1, sep, r[2]) ELSE Raised

\* self._unflatten(dict_, sort): <<"ok", nested mapping>> or Raised
Unflatten(dict_, sep, sort) ==
    UnflattenFrom(IF sort THEN SortedItems(dict_) ELSE dict_, 1, sep, <<>>)

(***************************************************************************)
(* compare_lists_with_dictdiffer.                                          *)
(***************************************************************************)
IsContainerPair(x, y) == (IsDict(x) /\ IsDict(y)) \/ (IsList(x) /\ IsList(y))

Min(m, n) == IF m < n THEN m ELSE n

RECURSIVE HasAddOrChange(_, _)
\* dictdiffer.diff(x, y) yields a change other than "remove": mappings are
\* compared key by key and lists index by index, anything else by equality.
HasAddOrChange(x, y) ==
    IF IsDict(x) /\ IsDict(y)
    THEN \/ \E k \in DictKeys(y[2]) : ~DictHas(x[2], k)
         \/ \E k \in DictKeys(y[2]) :
               DictHas(x[2], k) /\ HasAddOrChange(DictGet(x[2], k), DictGet(y[2], k))
    ELSE IF IsList(x) /\ IsList(y)
    THEN \/ Len(y[2]) > Len(x[2])
         \/ \E i \in 1..Min(Len(x[2]), Len(y[2])) : HasAddOrChange(x[2][i], y[2][i])
    ELSE ~PyEq(x, y)

ListOfSeconds(pairs) == [i \in 1..Len(pairs) |-> pairs[i][2]]

\* A variant that returns the added elements only.
compare_lists_additions_only(actual, expected) ==
    IF ~IsList(actual) THEN <<expected>>
    ELSE SubSeq(expected[2], Len(actual[2]) + 1, Len(expected[2]))

\* compare_lists_with_dictdiffer(actual, expected); expected is a list, the
\* result is the payload of a list. dictdiffer.patch applies the additions and
\* changes to {}: ("change", [i]) sets key i and ("add", "") sets the added
\* indexes, while a change inside element i looks up key i of {} and raises
\* KeyError, for which the whole expected list is returned. An actual value
\* that is not a list gives one ("change", "") of the whole value.
compare_lists_with_dictdiffer(actual, expected) ==
    IF ~IsList(actual) THEN <<expected>>
    ELSE LET a == actual[2]
             e == expected[2]
             n == Min(Len(a), Len(e))
             inner == {i \in 1..n : IsContainerPair(a[i], e[i]) /\ HasAddOrChange(a[i], e[i])}
             changed == {i \in 1..n : ~IsContainerPair(a[i], e[i]) /\ ~PyEq(a[i], e[i])}
         IN  IF inner # {} THEN e
             ELSE ListOfSeconds(SelectSeq([i \in 1..Len(e) |-> <<i, e[i]>>],
                                          LAMBDA ie : ie[1] \in changed \/ ie[1] > n))

(***************************************************************************)
(* search_json with the JMESPath expressions the reconciler builds.        *)
(***************************************************************************)
\* rv or default
Or(rv, default) == IF Truthy(rv) THEN rv ELSE default

\* JMESPath field access: null on anything but a mapping that has the key
Field(v, k) == IF IsDict(v) /\ DictHas(v[2], k) THEN DictGet(v[2], k) ELSE None

RECURSIVE FlattenOneFrom(_, _)
FlattenOneFrom(elems, i) ==
    IF i > Len(elems) THEN <<>>
    ELSE (IF IsList(elems[i]) THEN elems[i][2] ELSE <<elems[i]>>) \o FlattenOneFrom(elems, i + 1)

\* JMESPath flatten `[]`: null on anything but a list; lists inside are merged
FlattenOne(v) == IF IsList(v) THEN PyList(FlattenOneFrom(v[2], 1)) ELSE None

\* JMESPath projection of field k over a list: nulls are dropped
ProjectField(v, k) ==
    IF IsList(v)
    THEN PyList(SelectSeq([i \in 1..Len(v[2]) |-> Field(v[2][i], k)], LAMBDA x : x # None))
    ELSE None

\* jmes_search_key evaluated on one element: nested_key, or parent_key[].nested_key
SearchKeys(element, nested_key, parent_key) ==
    IF parent_key # <<>>
    THEN ProjectField(FlattenOne(Field(element, parent_key)), nested_key)
    ELSE Field(element, nested_key)

\* "[]." + jmes_search_key evaluated on the list
SearchKeysOfList(list, nested_key, parent_key) ==
    IF parent_key # <<>>
    THEN ProjectField(FlattenOne(ProjectField(FlattenOne(list), parent_key)), nested_key)
    ELSE ProjectField(FlattenOne(list), nested_key)

\* jmes_nested, parent_key[?nested_key=='expected_key'], evaluated on one element.
\* The key is put into the expression as text, so only a string field equals it.
SearchNested(element, nested_key, parent_key, expected_key) ==
    LET base == IF parent_key # <<>> THEN Field(element, parent_key) ELSE element
    IN  IF IsList(base)
        THEN PyList(SelectSeq(base[2],
                 LAMBDA x : expected_key[1] = "s" /\ Field(x, nested_key) = expected_key))
        ELSE None

\* iter(v): the elements of a list, the characters of a string, the keys of a
\* mapping; an integer or None is not iterable.
IsIterable(v) == v[1] \in {"l", "s", "d"}
Iter(v) ==
    CASE v[1] = "l" -> v[2]
      [] v[1] = "s" -> [i \in 1..Len(v[2]) |-> PyStr(<<v[2][i]>>)]
      [] v[1] = "d" -> [i \in 1..Len(v[2]) |-> PyStr(v[2][i][1])]
      [] OTHER -> <<>>

\* more_itertools.always_iterable(v): a string or a non-iterable is one item
AlwaysIterable(v) ==
    CASE v[1] = "n" -> <<>>
      [] v[1] \in {"l", "d"} -> Iter(v)
      [] OTHER -> <<v>>

IsHashable(v) == v[1] \in {"n", "i", "s"}

\* x in list
InList(x, elems) == \E i \in 1..Len(elems) : PyEq(elems[i], x)

(***************************************************************************)
(* search_element_by_unique_key.                                           *)
(*                                                                         *)
(* The function works on Python objects: it assigns element[parent_key] on *)
(* the elements of expected_list and assigns into the list                 *)
(* actual_list[index][parent_key], which new_block (a shallow copy) shares *)
(* with actual_list[index]. The state of a run holds the current elements  *)
(* A of actual_list and E of expected_list; `display` and the elements      *)
(* appended to `replace` are kept as indexes into E, since the lists hold   *)
(* the element objects and show their later changes. replace[index] =       *)
(* new_block leaves the content of position index that of A[index].        *)
(***************************************************************************)
RECURSIVE IndexKeysFirst(_, _, _, _)
\* A variant in which the first index of a key is kept.
IndexKeysFirst(idx, keys, i, index) ==
    IF i > Len(keys) THEN <<"ok", idx>>
    ELSE IF ~IsHashable(keys[i]) THEN Raised
    ELSE IndexKeysFirst(IF DictHas(idx, keys[i]) THEN idx ELSE DictSet(idx, keys[i], index),
                        keys, i + 1, index)

RECURSIVE IndexKeys(_, _, _, _)
\* the inner loop of the actual_indexes comprehension, for one element
IndexKeys(idx, keys, i, index) ==
    IF i > Len(keys) THEN <<"ok", idx>>
    ELSE IF ~IsHashable(keys[i]) THEN Raised
    ELSE IndexKeys(DictSet(idx, keys[i], index), keys, i + 1, index)

RECURSIVE ActualIndexes(_, _, _, _, _)
\* actual_indexes: <<"ok", pairs <<key, index>>>>, a later index replacing an
\* earlier one for the same key; Raised when a key field is not iterable or a
\* key is not hashable
ActualIndexes(actual_list, index, nested_key, parent_key, idx) ==
    IF index > Len(actual_list) THEN <<"ok", idx>>
    ELSE LET ks == Or(SearchKeys(actual_list[index], nested_key, parent_key), PyList(<<>>))
         IN  IF ~IsIterable(ks) THEN Raised
             ELSE LET r == IndexKeys(idx, Iter(ks), 1, index)
                  IN  IF r[1] = "ok"
                      THEN ActualIndexes(actual_list, index + 1, nested_key, parent_key, r[2])
                      ELSE Raised

\* An element of expected_list goes to display and to the end of replace.
AppendElement(rs, j) ==
    [rs EXCEPT !.display = Append(@, j), !.appended = Append(@, j)]

\* A variant that puts the nested diff in place of the whole nested list.
SpliceDropping(rs, index, parent_key, actual_nested, diff_nested) ==
    IF ~DictHas(rs.A[index][2], parent_key) THEN [rs EXCEPT !.raised = TRUE]
    ELSE [rs EXCEPT !.A[index] = PyDict(DictSet(@[2], parent_key, PyList(diff_nested)))]

\* Lines 139-144: the loop over actual_list[index][parent_key] that replaces the
\* first object equal to actual_nested[0] by diff_nested[0].
Splice(rs, index, parent_key, actual_nested, diff_nested) ==
    IF ~DictHas(rs.A[index][2], parent_key) THEN [rs EXCEPT !.raised = TRUE]
    ELSE LET pv == DictGet(rs.A[index][2], parent_key)
             objs == Iter(pv)
         IN  IF ~IsIterable(pv) THEN [rs EXCEPT !.raised = TRUE]
             ELSE IF objs = <<>> THEN rs
             ELSE IF actual_nested = <<>> THEN [rs EXCEPT !.raised = TRUE]
             ELSE IF \E n \in 1..Len(objs) : PyEq(objs[n], actual_nested[1])
             THEN LET nested_index == CHOOSE n \in 1..Len(objs) :
                                         /\ PyEq(objs[n], actual_nested[1])
                                         /\ \A m \in 1..(n - 1) : ~PyEq(objs[m], actual_nested[1])
                  IN  IF IsList(pv)
                      THEN [rs EXCEPT !.A[index] =
                               PyDict(DictSet(@[2], parent_key,
                                   PyList([pv[2] EXCEPT ![nested_index] = diff_nested[1]])))]
                      ELSE [rs EXCEPT !.raised = TRUE]
             ELSE rs

\* Lines 134-144: with a non-empty diff_nested the expected element gets
\* element[parent_key] = diff_nested and goes to display, then the nested list of
\* the actual element is patched.
NestedDiff(rs, j, index, parent_key, actual_nested, diff_nested) ==
    IF diff_nested = <<>> THEN rs
    ELSE Splice([rs EXCEPT !.E[j] = PyDict(DictSet(@[2], parent_key, PyList(diff_nested))),
                           !.display = Append(@, j)],
                index, parent_key, actual_nested[2], diff_nested)

\* Lines 124-144: the part of the loop body that follows the lookup of index.
NestedStep(rs, j, index, parent_key, actual_nested, expected_nested) ==
    NestedDiff(rs, j, index, parent_key, actual_nested,
               compare_lists_with_dictdiffer(actual_nested, expected_nested))

\* Lines 119-144: the body of the loop over the keys of one expected element.
KeyStep(rs, j, expected_key, actual_keys, actual_indexes, nested_key, parent_key) ==
    IF rs.raised THEN rs
    ELSE IF ~InList(expected_key, actual_keys) THEN AppendElement(rs, j)
    ELSE IF ~IsHashable(expected_key) THEN [rs EXCEPT !.raised = TRUE]
    ELSE IF ~DictHas(actual_indexes, expected_key) THEN rs
    ELSE NestedStep(rs, j, DictGet(actual_indexes, expected_key), parent_key,
             Or(SearchNested(rs.A[DictGet(actual_indexes, expected_key)],
                             nested_key, parent_key, expected_key), PyList(<<>>)),
             Or(SearchNested(rs.E[j], nested_key, parent_key, expected_key),
                PyList(<<PyDict(<<>>)>>)))

RECURSIVE KeyLoop(_, _, _, _, _, _, _, _)
KeyLoop(rs, j, keys, i, actual_keys, actual_indexes, nested_key, parent_key) ==
    IF i > Len(keys) THEN rs
    ELSE KeyLoop(KeyStep(rs, j, keys[i], actual_keys, actual_indexes, nested_key, parent_key),
                 j, keys, i + 1, actual_keys, actual_indexes, nested_key, parent_key)

RECURSIVE ElementLoop(_, _, _, _, _, _)
\* Lines 110-144: the loop over expected_list.
ElementLoop(rs, j, actual_keys, actual_indexes, nested_key, parent_key) ==
    IF j > Len(rs.E) \/ rs.raised THEN rs
    ELSE LET expected_keys == Or(SearchKeys(rs.E[j], nested_key, parent_key), None)
             next == IF ~Truthy(expected_keys) THEN AppendElement(rs, j)
                     ELSE KeyLoop(rs, j, AlwaysIterable(expected_keys), 1,
                                  actual_keys, actual_indexes, nested_key, parent_key)
         IN  ElementLoop(next, j + 1, actual_keys, actual_indexes, nested_key, parent_key)

\* The call raised: nothing is returned.
Failed == [raised |-> TRUE, display |-> <<>>, replace |-> <<>>, actual |-> <<>>, expected |-> <<>>]

\* Line 146: display and replace as the caller sees them on return, and the
\* elements of actual_list and expected_list as the call leaves them: line 136
\* assigns to the expected element itself, and new_block, a shallow copy (line
\* 139), shares the nested list that line 142 assigns to with the actual element.
Returned(rs) ==
    IF rs.raised THEN Failed
    ELSE [raised |-> FALSE,
          display |-> [n \in 1..Len(rs.display) |-> rs.E[rs.display[n]]],
          replace |-> rs.A \o [n \in 1..Len(rs.appended) |-> rs.E[rs.appended[n]]],
          actual |-> rs.A, expected |-> rs.E]

\* Lines 108-146: replace = actual_list.copy(), the loop, and the return.
SearchWithIndexes(A, E, actual_keys, ix, nested_key, parent_key) ==
    IF ix[1] # "ok" THEN Failed
    ELSE Returned(ElementLoop([A |-> A, E |-> E, display |-> <<>>, appended |-> <<>>,
                               raised |-> FALSE],
                              1, actual_keys, ix[2], nested_key, parent_key))

\* search_element_by_unique_key(actual_list, expected_list, nested_key, parent_key):
\* [raised, display, replace], the lists as the caller sees them on return.
search_element_by_unique_key(actual_list, expected_list, nested_key, parent_key) ==
    LET actual_keys == Or(SearchKeysOfList(actual_list, nested_key, parent_key), PyList(<<>>))
    IN  IF ~Truthy(actual_keys)
        THEN IF IsList(actual_list)
             THEN [raised |-> FALSE, display |-> expected_list[2],
                   replace |-> actual_list[2] \o expected_list[2],
                   actual |-> actual_list[2], expected |-> expected_list[2]]
             ELSE Failed
        ELSE SearchWithIndexes(actual_list[2], expected_list[2], actual_keys[2],
                 ActualIndexes(actual_list[2], 1, nested_key, parent_key, <<>>),
                 nested_key, parent_key)

(***************************************************************************)
(* Comparison and BaseDoc.compare_with_flatten.                            *)
(***************************************************************************)
\* set_key_if_not_empty(dict_, key, value)
set_key_if_not_empty(dict_, key, value) ==
    IF ~Truthy(value) THEN dict_ ELSE DictSet(dict_, key, value)

\* A variant in which the fast path is never taken.
ItemsSubsetNever(flat_expected, flat_actual) == FALSE

\* flat_expected.items() <= flat_actual.items()
ItemsSubset(flat_expected, flat_actual) ==
    \A i \in 1..Len(flat_expected) :
        /\ DictHas(flat_actual, flat_expected[i][1])
        /\ PyEq(flat_expected[i][2], DictGet(flat_actual, flat_expected[i][1]))

\* unique_keys.get(key, ("", "")) unpacked into nested_key, parent_key; a value
\* that does not unpack into two raises ValueError, which gives "", "".
UniqueKey(unique_keys, key) ==
    IF DictHas(unique_keys, key) /\ Len(DictGet(unique_keys, key)) = 2
    THEN DictGet(unique_keys, key)
    ELSE <<<<>>, <<>>>>

\* A variant that records the whole list only.
RecordUniqueKeyReplaceOnly(st, key, r) ==
    IF r.raised THEN [st EXCEPT !.raised = TRUE]
    ELSE IF Truthy(PyList(r.display))
    THEN [st EXCEPT !.replace = set_key_if_not_empty(@, key, PyList(r.replace))]
    ELSE st

\* A variant that records the whole list whenever it is not empty.
RecordUniqueKeyAlways(st, key, r) ==
    IF r.raised THEN [st EXCEPT !.raised = TRUE]
    ELSE [st EXCEPT !.missing = set_key_if_not_empty(@, key, PyList(r.display)),
                    !.replace = set_key_if_not_empty(@, key, PyList(r.replace))]

\* Lines 388-393: what is recorded of the reconciler's result; an exception of
\* the reconciler leaves compare_with_flatten.
RecordUniqueKey(st, key, r) ==
    IF r.raised THEN [st EXCEPT !.raised = TRUE]
    ELSE IF Truthy(PyList(r.display))
    THEN [st EXCEPT !.missing = set_key_if_not_empty(@, key, PyList(r.display)),
                    !.replace = set_key_if_not_empty(@, key, PyList(r.replace))]
    ELSE st

\* A variant that records a missing key only when its value is truthy.
RecordMissingIfNotEmpty(st, key, expected_value) ==
    [st EXCEPT !.missing = set_key_if_not_empty(@, key, expected_value)]

\* A variant that files a missing key one level below itself.
RecordMissingBelow(st, key, expected_value) ==
    [st EXCEPT !.missing = DictSet(@, key \o DOT \o key, expected_value)]

\* Line 377: missing[key] = expected_value
RecordMissing(st, key, expected_value) ==
    [st EXCEPT !.missing = DictSet(@, key, expected_value)]

\* Lines 376-397: the body of the loop over flat_expected.
CompareStep(st, key, expected_value, flat_actual, unique_keys) ==
    IF ~DictHas(flat_actual, key)
    THEN RecordMissing(st, key, expected_value)
    ELSE LET actual == DictGet(flat_actual, key)
             nested_key == UniqueKey(unique_keys, key)[1]
             parent_key == UniqueKey(unique_keys, key)[2]
         IN  IF IsList(expected_value)
             THEN IF nested_key # <<>>
                  THEN RecordUniqueKey(st, key,
                           search_element_by_unique_key(actual, expected_value,
                                                        nested_key, parent_key))
                  ELSE [st EXCEPT !.diff = set_key_if_not_empty(@, key,
                            PyList(compare_lists_with_dictdiffer(actual, expected_value)))]
             ELSE IF ~PyEq(expected_value, actual)
                  THEN [st EXCEPT !.diff = set_key_if_not_empty(@, key, expected_value)]
                  ELSE st

RECURSIVE CompareLoop(_, _, _, _, _)
CompareLoop(st, flat_expected, i, flat_actual, unique_keys) ==
    IF i > Len(flat_expected) \/ st.raised THEN st
    ELSE CompareLoop(CompareStep(st, flat_expected[i][1], flat_expected[i][2],
                                 flat_actual, unique_keys),
                     flat_expected, i + 1, flat_actual, unique_keys)

\* Comparison.has_changes
has_changes(missing_dict, diff_dict, replace_dict) ==
    missing_dict # <<>> \/ diff_dict # <<>> \/ replace_dict # <<>>

NoComparison ==
    [status |-> "none", fast |-> FALSE, flat_actual |-> <<>>, flat_expected |-> <<>>,
     missing |-> <<>>, diff |-> <<>>, replace |-> <<>>,
     missing_dict |-> <<>>, diff_dict |-> <<>>, replace_dict |-> <<>>,
     has_changes |-> FALSE]

\* Lines 399-401: the three buckets unflattened by
\* DictBlender(separator=DOT, flatten_on_add=False).mix().
Mixed(base, st, m, d, r) ==
    IF st.raised \/ m[1] # "ok" \/ d[1] # "ok" \/ r[1] # "ok"
    THEN [base EXCEPT !.status = "raised"]
    ELSE [base EXCEPT !.missing = st.missing, !.diff = st.diff, !.replace = st.replace,
                      !.missing_dict = m[2], !.diff_dict = d[2], !.replace_dict = r[2],
                      !.has_changes = has_changes(m[2], d[2], r[2])]

\* Lines 399-402 on the buckets st the loop has filled.
MixBuckets(base, st) ==
    Mixed(base, st, Unflatten(st.missing, DOT, TRUE), Unflatten(st.diff, DOT, TRUE),
          Unflatten(st.replace, DOT, TRUE))

\* Lines 365-402 on the two flat mappings of the Comparison.
CompareFlat(base, flat_actual, flat_expected, unique_keys) ==
    IF ItemsSubset(flat_expected, flat_actual) THEN [base EXCEPT !.fast = TRUE]
    ELSE MixBuckets(base,
             CompareLoop([missing |-> <<>>, diff |-> <<>>, replace |-> <<>>, raised |-> FALSE],
                         flat_expected, 1, flat_actual, unique_keys))

\* Comparison.__init__: both sides flattened by DictBlender(..., separator=DOT),
\* extend_lists left at its default.
NewComparison(flat_actual, flat_expected, unique_keys) ==
    CompareFlat([NoComparison EXCEPT !.status = "ok", !.flat_actual = flat_actual,
                                     !.flat_expected = flat_expected],
                flat_actual, flat_expected, unique_keys)

\* compare_with_flatten(expected, unique_keys) of a document whose as_object is
\* actual.
compare_with_flatten(actual, expected, unique_keys) ==
    NewComparison(Flatten(actual, <<>>, DOT, TRUE).dict,
                  Flatten(expected, <<>>, DOT, TRUE).dict, unique_keys)

(***************************************************************************)
(* The tree writers traverse_yaml_tree and traverse_toml_tree.             *)
(*                                                                         *)
(* The writers change the target in place. A call is modelled by the value *)
(* of the target when the call ends: [raised, obj], where raised tells     *)
(* that an exception left the call and obj holds what had been written by  *)
(* then. A target that is not a mapping (met by recursion) makes the first *)
(* membership test, subscript or method call on it raise.                  *)
(***************************************************************************)
\* is_scalar(value)
is_scalar(value) == ~(IsList(value) \/ IsDict(value))

Written(obj) == [raised |-> FALSE, obj |-> obj]
Aborted(obj) == [raised |-> TRUE, obj |-> obj]

\* A variant that moves the key to the end of the mapping.
PutKeyLast(yaml_obj, key, r) ==
    [raised |-> r.raised,
     obj |-> PyDict(Append(SelectSeq(yaml_obj[2], LAMBDA e : e[1] # key), <<key, r.obj>>))]

\* yaml_obj[key] = r.obj on the mapping yaml_obj, keeping whether the call raised
PutKey(yaml_obj, key, r) == [raised |-> r.raised, obj |-> PyDict(DictSet(yaml_obj[2], key, r.obj))]

\* list_[index] = r.obj (index counted from 1), keeping whether the call raised
PutIndex(list_, index, r) ==
    [raised |-> r.raised, obj |-> PyList([list_[2] EXCEPT ![index] = r.obj])]

\* A variant of the list rule that appends every element.
YamlElementAppending(existing, index, element, recursed) ==
    Written(PyList(Append(existing[2], element)))

\* A variant of the list rule that leaves a scalar existing element alone.
YamlElementKeeping(existing, index, element, recursed) ==
    IF index <= Len(existing[2]) /\ is_scalar(existing[2][index]) THEN Written(existing)
    ELSE IF index > Len(existing[2]) THEN Written(PyList(Append(existing[2], element)))
    ELSE IF is_scalar(element) THEN PutIndex(existing, index, Written(element))
    ELSE PutIndex(existing, index, recursed)

\* Lines 542-557: the body of the loop of _traverse_yaml_list for one element
\* on the list existing = yaml_obj[key]; recursed is the outcome of
\* traverse_yaml_tree(yaml_obj[key][index], element).
YamlElement(existing, index, element, recursed) ==
    IF index <= Len(existing[2]) /\ is_scalar(existing[2][index])
    THEN PutIndex(existing, index, Written(element))
    ELSE IF index > Len(existing[2]) THEN Written(PyList(Append(existing[2], element)))
    ELSE IF is_scalar(element) THEN PutIndex(existing, index, Written(element))
    ELSE PutIndex(existing, index, recursed)

\* A variant that puts the change value in place of the existing mapping.
TomlTableOverwrite(document, key, value, recursed) ==
    Written(PyDict(DictSet(document[2], key, value)))

\* Lines 458-462: a mapping value of the change-set; recursed is the outcome of
\* traverse_toml_tree(document[key], value).
TomlTable(document, key, value, recursed) ==
    IF DictHas(document[2], key) THEN PutKey(document, key, recursed)
    ELSE Written(PyDict(DictSet(document[2], key, value)))

RECURSIVE traverse_toml_tree(_, _, _)
RECURSIVE TomlRest(_, _, _)
\* traverse_toml_tree(document, dictionary): the loop over dictionary.items()
\* from position i.
traverse_toml_tree(document, dictionary, i) ==
    IF i > Len(dictionary[2]) THEN Written(document)
    ELSE IF ~IsDict(document) THEN Aborted(document)
    ELSE TomlRest(
             IF IsDict(dictionary[2][i][2])
             THEN TomlTable(document, dictionary[2][i][1], dictionary[2][i][2],
                      IF DictHas(document[2], dictionary[2][i][1])
                      THEN traverse_toml_tree(DictGet(document[2], dictionary[2][i][1]),
                                              dictionary[2][i][2], 1)
                      ELSE Written(None))
             ELSE Written(PyDict(DictSet(document[2], dictionary[2][i][1], dictionary[2][i][2]))),
             dictionary, i)

\* the rest of the loop after entry i, unless an exception left it
TomlRest(r, dictionary, i) ==
    IF r.raised THEN r ELSE traverse_toml_tree(r.obj, dictionary, i + 1)

RECURSIVE traverse_yaml_tree(_, _, _)
RECURSIVE YamlRest(_, _, _)
RECURSIVE traverse_yaml_list(_, _, _)
RECURSIVE YamlListRest(_, _, _)
RECURSIVE YamlEntry(_, _, _)

\* traverse_yaml_tree(yaml_obj, change): the loop over change.items() from
\* position i. A change that is not a mapping has no items().
traverse_yaml_tree(yaml_obj, change, i) ==
    IF ~IsDict(change) THEN Aborted(yaml_obj)
    ELSE IF i > Len(change[2]) THEN Written(yaml_obj)
    ELSE IF ~IsDict(yaml_obj) THEN Aborted(yaml_obj)
    ELSE YamlRest(YamlEntry(yaml_obj, change[2][i][1], change[2][i][2]), change, i)

YamlRest(r, change, i) ==
    IF r.raised THEN r ELSE traverse_yaml_tree(r.obj, change, i + 1)

\* Lines 523-537: the body of the loop of traverse_yaml_tree on a mapping.
YamlEntry(yaml_obj, key, value) ==
    IF ~DictHas(yaml_obj[2], key) THEN Written(PyDict(DictSet(yaml_obj[2], key, value)))
    ELSE IF is_scalar(value) THEN Written(PyDict(DictSet(yaml_obj[2], key, value)))
    ELSE IF IsDict(value)
    THEN PutKey(yaml_obj, key, traverse_yaml_tree(DictGet(yaml_obj[2], key), value, 1))
    ELSE PutKey(yaml_obj, key, traverse_yaml_list(DictGet(yaml_obj[2], key), value, 1))

\* _traverse_yaml_list(yaml_obj, key, value) on existing = yaml_obj[key]: the
\* loop over value from position index (counted from 1).
traverse_yaml_list(existing, value, index) ==
    IF index > Len(value[2]) THEN Written(existing)
    ELSE IF ~IsList(existing) THEN Aborted(existing)
    ELSE YamlListRest(
             YamlElement(existing, index, value[2][index],
                 IF index <= Len(existing[2])
                 THEN traverse_yaml_tree(existing[2][index], value[2][index], 1)
                 ELSE Written(None)),
             value, index)

YamlListRest(r, value, index) ==
    IF r.raised THEN r ELSE traverse_yaml_list(r.obj, value, index + 1)

(***************************************************************************)
(* The documents the blender is fed with.                                  *)
(***************************************************************************)
ka == <<"a">>
kb == <<"b">>
kc == <<"c">>
kEmpty == <<>>
kDotted == <<"a", ".", "b">>
kSepFlatten == <<"a", "$", "#", "@", "b">>
kQuoted == <<"\"", "a", "\"">>

\* Mapping-rooted documents (payloads of the root mapping) added with flattening.
Docs ==
    { <<>>,
      << <<ka, PyInt(1)>> >>,
      << <<ka, PyInt(0)>>, <<kb, PyInt(2)>> >>,
      << <<ka, PyDict(<< <<kb, PyInt(2)>> >>)>> >>,
      << <<kb, PyInt(1)>>, <<ka, PyDict(<< <<kc, PyInt(1)>>, <<kb, PyList(<<PyInt(1)>>)>> >>)>> >>,
      << <<ka, PyList(<<PyInt(1)>>)>> >>,
      << <<ka, PyList(<<PyInt(2), PyInt(1)>>)>> >>,
      << <<ka, PyList(<<>>)>>, <<kb, PyInt(1)>> >>,
      << <<ka, PyDict(<<>>)>> >>,
      << <<kb, PyInt(1)>>, <<ka, PyDict(<< <<kb, PyDict(<<>>)>> >>)>> >>,
      << <<kDotted, PyInt(1)>>, <<ka, PyDict(<< <<kb, PyInt(2)>> >>)>> >>,
      << <<kSepFlatten, PyList(<<PyInt(1)>>)>> >>,
      << <<kQuoted, PyInt(1)>> >>,
      << <<kEmpty, PyDict(<< <<ka, PyList(<<PyInt(1)>>)>> >>)>>, <<ka, PyList(<<PyInt(2)>>)>> >>,
      << <<ka, PyList(<<PyDict(<< <<kb, PyInt(1)>> >>)>>)>> >>,
      << <<kEmpty, PyDict(<< <<ka, PyInt(1)>> >>)>>, <<ka, PyList(<<PyInt(2)>>)>> >> }

\* Documents added "as is" (flatten_on_add false): already flat, no mapping values.
AsIsDocs ==
    { << <<ka, PyInt(1)>> >>,
      << <<kb, PyList(<<PyInt(2)>>)>>, <<ka, PyInt(2)>> >>,
      << <<kDotted, PyInt(2)>> >>,
      << <<kSepFlatten, PyInt(2)>> >> }

NotMixed == [status |-> "none", value |-> <<>>, sort |-> TRUE]

InitBlender ==
    /\ flat = <<>>
    /\ lists = <<>>
    /\ extend_lists \in BOOLEAN
    /\ separator \in {SEPARATOR_FLATTEN, DOT}
    /\ flatten_on_add \in BOOLEAN
    /\ added = <<>>
    /\ mixed = NotMixed
    /\ mixed2 = [status |-> "none", value |-> <<>>, flat |-> <<>>]

IdleBlender ==
    /\ flat = <<>>
    /\ lists = <<>>
    /\ extend_lists = TRUE
    /\ separator = SEPARATOR_FLATTEN
    /\ flatten_on_add = TRUE
    /\ added = <<>>
    /\ mixed = NotMixed
    /\ mixed2 = [status |-> "none", value |-> <<>>, flat |-> <<>>]

\* DictBlender.add(other, flatten_on_add=arg); arg is "None", "True" or "False"
Add(other, arg) ==
    /\ Len(added) < MaxAdds
    /\ LET flatten == IF arg = "None" THEN flatten_on_add ELSE (arg = "True")
           f == Flatten(other, lists, separator, extend_lists)
       IN  /\ other \in (IF flatten THEN Docs ELSE AsIsDocs)
           /\ flat' = DictUpdate(flat, IF flatten THEN f.dict ELSE other)
           /\ lists' = (IF flatten THEN f.lists ELSE lists)
           /\ added' = Append(added, [doc |-> other, flatten |-> flatten])
    /\ mixed' = NotMixed
    /\ mixed2' = [status |-> "none", value |-> <<>>, flat |-> <<>>]
    /\ UNCHANGED <<extend_lists, separator, flatten_on_add, codecVars, cmpVars, recVars, twVars, appVars>>

\* DictBlender.mix(sort)
Mix(sort) ==
    /\ mixed.status = "none"
    /\ LET r == Unflatten(flat, separator, sort)
       IN  mixed' = [status |-> r[1], value |-> r[2], sort |-> sort]
    /\ UNCHANGED <<flat, lists, extend_lists, separator, flatten_on_add, added, mixed2,
                   codecVars, cmpVars, recVars, twVars, appVars>>

Reverse(seq) == [i \in 1..Len(seq) |-> seq[Len(seq) + 1 - i]]
Rotate(seq) == IF seq = <<>> THEN seq ELSE Tail(seq) \o <<seq[1]>>

\* A second blender, DictBlender(separator=separator, flatten_on_add=False), is
\* given the entries of the first one in another insertion order and mixed with
\* the same sort argument.
MixOther(order) ==
    /\ mixed.status # "none"
    /\ mixed2.status = "none"
    /\ LET entries == IF order = "reverse" THEN Reverse(flat) ELSE Rotate(flat)
           flat2 == DictUpdate(<<>>, entries)
           r == Unflatten(flat2, separator, mixed.sort)
       IN  mixed2' = [status |-> r[1], value |-> r[2], flat |-> flat2]
    /\ UNCHANGED <<flat, lists, extend_lists, separator, flatten_on_add, added, mixed,
                   codecVars, cmpVars, recVars, twVars, appVars>>

(***************************************************************************)
(* A run of the key codec: _flatten builds the flat key of a path, then    *)
(* quoted_split (called by _unflatten) splits it.                          *)
(***************************************************************************)
Segs ==
    { ka, kc, kDotted, DOT, kSepFlatten, kQuoted, kEmpty,
      <<"a", "'">>, SEPARATOR_QUOTED_SPLIT }

SeqsUpTo(S, n) == UNION {[1..m -> S] : m \in 1..n}

IdleCodec ==
    /\ segments = <<>>
    /\ codecSep = DOT
    /\ joined = <<>>
    /\ splitOut = <<>>
    /\ cpc = "idle"

IdleCmp ==
    /\ cmpIn = [actual |-> <<>>, expected |-> <<>>, unique_keys |-> <<>>]
    /\ cmpOut = NoComparison

NoReconciliation ==
    [status |-> "none", actual_list |-> <<>>, expected_list |-> <<>>,
     nested_key |-> <<>>, parent_key |-> <<>>, display |-> <<>>, replace |-> <<>>,
     actual_after |-> <<>>, expected_after |-> <<>>]

NotReconciledAgain == [status |-> "none", display |-> <<>>, replace |-> <<>>]

IdleRec ==
    /\ rec = NoReconciliation
    /\ rec2 = NotReconciledAgain

NotWritten ==
    [status |-> "none", writer |-> "yaml", target |-> PyDict(<<>>), change |-> PyDict(<<>>),
     result |-> PyDict(<<>>)]

NotWrittenAgain == [status |-> "none", result |-> PyDict(<<>>)]

IdleTw ==
    /\ tw = NotWritten
    /\ tw2 = NotWrittenAgain

(***************************************************************************)
(* Documents: BaseDoc and its classes TomlDoc, YamlDoc, JsonDoc.          *)
(***************************************************************************)
\* BaseDoc.__init__ (lines 332-337); a field is "None" or holds something. null
\* tells that the text of the document parses to None (an empty YAML text, the
\* JSON text null); age is the place of the document in the cache of load: the
\* number of entries used more recently, or -1 when it has no entry; reads,
\* parses and bodies count the file reads, the parses and the runs of the body.
NewDoc(class, path, string, obj, null) ==
    [built |-> TRUE, class |-> class, path |-> path, null |-> null,
     string |-> IF string THEN "text" ELSE "None",
     object |-> IF obj THEN "dict" ELSE "None",
     reformatted |-> "None",
     age |-> -1, reads |-> 0, parses |-> 0, bodies |-> 0]

NoDoc == [NewDoc("toml", FALSE, FALSE, FALSE, FALSE) EXCEPT !.built = FALSE]

\* toml.loads, SensibleYAML.loads, json.loads: toml.loads never returns None.
Loads(d) == IF d.null /\ d.class # "toml" THEN "None" ELSE "dict"

\* if self.path is not None: self._string = Path(self.path).read_text(...)
ReadFile(d) ==
    IF d.path THEN [d EXCEPT !.string = "text", !.reads = @ + 1] ELSE d

\* if self._string is not None: self._object = loads(self._string)
ParseString(d) ==
    IF d.string # "None" THEN [d EXCEPT !.object = Loads(d), !.parses = @ + 1] ELSE d

\* if self._object is not None: self._reformatted = dumps(self._object)
Reformat(d) ==
    IF d.object # "None" THEN [d EXCEPT !.reformatted = "text"] ELSE d

\* The body of load, the same three steps in the three classes.
LoadBody(d) == [Reformat(ParseString(ReadFile(d))) EXCEPT !.bodies = @ + 1]

\* @lru_cache() def load(self): the body runs when the cache holds no entry for
\* self; either way self becomes the most recently used entry.
load(d) == [(IF d.age >= 0 THEN d ELSE LoadBody(d)) EXCEPT !.age = 0]

\* BaseDoc.as_object
as_object(d) == IF d.object = "None" THEN load(d) ELSE d

\* BaseDoc.reformatted
reformatted(d) == IF d.reformatted = "None" THEN load(d) ELSE d

\* load of another Document of the same class, for the first time: its entry is
\* put in the cache, which discards the least recently used one when it is full.
Aged(d) ==
    IF d.age < 0 THEN d
    ELSE IF d.age + 1 >= LruMaxSize THEN [d EXCEPT !.age = -1]
    ELSE [d EXCEPT !.age = @ + 1]

(***************************************************************************)
(* Style.merge_toml_dict.                                                  *)
(***************************************************************************)
\* One call: pc is its position ("none" before the call, "loop" at the test of
\* the while, "returned", "raised"); dir and file are the cache directory and
\* the merged style file on disk; outcomes are the outcomes of the attempts.
NoMerge ==
    [pc |-> "none", cache_dir |-> FALSE, merged |-> PyDict(<<>>), attempt |-> 0,
     outcomes |-> <<>>, dir |-> FALSE, file |-> None, result |-> None]

\* What an attempt (lines 188-189) can do: mkdir and write_text succeed, one of
\* them raises OSError, or write_text raises another exception (a
\* UnicodeEncodeError, a ValueError, for text the encoding cannot hold).
AttemptOutcomes == {"written", "mkdir OSError", "write OSError", "write other"}

\* Lines 179-185: no cache dir returns {}; else the loop is entered.
MergeEntered(m, cache_dir, dir, merged) ==
    IF ~cache_dir
    THEN [m EXCEPT !.pc = "returned", !.cache_dir = FALSE, !.dir = dir, !.merged = merged,
                   !.result = PyDict(<<>>)]
    ELSE [m EXCEPT !.pc = "loop", !.cache_dir = TRUE, !.dir = dir, !.merged = merged,
                   !.attempt = 1]

\* A variant of the test that never gives up.
LoopTestForever(m) == m

\* Line 186 and line 194: the test of the while; when it fails merged_dict is
\* returned.
LoopTest(m) ==
    IF m.attempt < AttemptLimit THEN m ELSE [m EXCEPT !.pc = "returned", !.result = m.merged]

\* Lines 187-192: one pass of the loop body, then the test again.
Attempted(m, outcome) ==
    LET tried == [m EXCEPT !.outcomes = Append(@, outcome)]
    IN  CASE outcome = "written" ->
                 [tried EXCEPT !.dir = TRUE, !.file = m.merged, !.pc = "returned",
                               !.result = m.merged]
          [] outcome = "mkdir OSError" ->
                 LoopTest([tried EXCEPT !.attempt = @ + 1])
          [] outcome = "write OSError" ->
                 LoopTest([tried EXCEPT !.dir = TRUE, !.attempt = @ + 1])
          [] OTHER ->
                 [tried EXCEPT !.dir = TRUE, !.pc = "raised"]

MergeCall(cache_dir, dir, merged) ==
    /\ mg.pc = "none"
    /\ mg' = MergeEntered(mg, cache_dir, dir, merged)
    /\ UNCHANGED <<blenderVars, codecVars, cmpVars, recVars, twVars, doc, inc, fx>>

MergeAttempt(outcome) ==
    /\ mg.pc = "loop"
    /\ mg' = Attempted(mg, outcome)
    /\ UNCHANGED <<blenderVars, codecVars, cmpVars, recVars, twVars, doc, inc, fx>>

(***************************************************************************)
(* Style inclusion: Style.include_multiple_styles and the fetchers.        *)
(***************************************************************************)
\* A style URI as written in a style file or in the configuration: a full URL
\* or a local name, of the style file `name`, with or without the .toml
\* extension, spelled directly or through a directory and back ("sub/../name");
\* or an empty string.
LocalUri(name, ext, up) == [kind |-> "local", name |-> name, ext |-> ext, up |-> up]
FullUrl(name, ext, up) == [kind |-> "url", name |-> name, ext |-> ext, up |-> up]
EmptyUri == [kind |-> "empty", name |-> "", ext |-> FALSE, up |-> FALSE]

\* is_url(uri)
is_url(uri) == uri.kind = "url"

\* The style files that exist, locally and on the server alike; "c" does not.
StyleFiles == {"a", "b"}

\* Style.__init__ (lines 34-37) and the state of one call: the include graph
\* (the URIs each style file lists under nitpick.styles.include), the frames of
\* the calls of include_multiple_styles that have not returned (the URIs each
\* still has to visit), the fields of the Style, the configured styles and the
\* number of steps taken (URIs visited and calls returned).
NoInclusion ==
    [pc |-> "none", includes |-> [f \in StyleFiles |-> <<>>], frames |-> <<>>,
     all_styles |-> <<>>, already_included |-> {}, first_full_path |-> "",
     chosen_styles |-> <<>>, steps |-> 0]

\* The outcome of a fetcher: the Style after it and the path it returned
\* (<<>> stands for None), or the exception it raised.
Fetched(st, path) == [st |-> st, path |-> path, raised |-> FALSE]
NotFound(st) == [st |-> st, path |-> <<>>, raised |-> TRUE]

\* A variant of the test that finds nothing included.
NothingIncluded(st, path) == FALSE

\* Lines 126-127 and 167-168: the test against _already_included.
AlreadyIncluded(st, path) == path \in st.already_included

\* Lines 110-124: the URL a URI stands for. A URI that is no URL is joined to
\* the first full path and resolved, which removes a "sub/.." of its spelling;
\* a full URL is taken as it is; the extension is added when missing.
NewUrl(st, uri) ==
    IF st.first_full_path # "" /\ ~is_url(uri)
    THEN <<"url", uri.name, FALSE>>
    ELSE <<"url", uri.name, uri.up>>

\* Lines 126-148 of fetch_style_from_url.
fetch_style_from_url(st, uri) ==
    LET new_url == NewUrl(st, uri)
    IN  IF AlreadyIncluded(st, new_url) THEN Fetched(st, <<>>)
        ELSE IF new_url[2] \notin StyleFiles THEN NotFound(st)
        ELSE Fetched([st EXCEPT !.first_full_path = IF @ = "" THEN "url" ELSE @,
                                !.already_included = @ \cup {new_url}],
                     new_url)

\* Lines 150-175 of fetch_style_from_local_path: the path is made absolute but
\* not resolved, so a "sub/.." of its spelling stays in it.
fetch_style_from_local_path(st, uri) ==
    LET style_path == <<"file", uri.name, uri.up>>
        first == [st EXCEPT !.first_full_path = IF @ = "" THEN "dir" ELSE @]
    IN  IF AlreadyIncluded(first, style_path) THEN Fetched(first, <<>>)
        ELSE IF uri.name \notin StyleFiles THEN NotFound(first)
        ELSE Fetched([first EXCEPT !.already_included = @ \cup {style_path}], style_path)

\* Style.get_style_path (lines 97-106).
get_style_path(st, uri) ==
    IF is_url(uri) \/ st.first_full_path = "url" THEN fetch_style_from_url(st, uri)
    ELSE IF uri.kind # "empty" THEN fetch_style_from_local_path(st, uri)
    ELSE Fetched(st, <<>>)

\* Lines 82-95: the body of the loop of include_multiple_styles for one URI, up
\* to the nested call, which is a new frame.
Included(st, r) ==
    IF r.raised THEN [r.st EXCEPT !.pc = "raised"]
    ELSE IF r.path = <<>> THEN r.st
    ELSE LET sub_styles == r.st.includes[r.path[2]]
         IN  [r.st EXCEPT !.all_styles = Append(@, r.path),
                          !.frames = IF sub_styles # <<>> THEN Append(@, sub_styles) ELSE @]

\* The loop takes the next URI of the innermost call.
VisitNext(st) ==
    LET top == st.frames[Len(st.frames)]
        rest == [st EXCEPT !.frames[Len(st.frames)] = Tail(top)]
    IN  Included(rest, get_style_path(rest, Head(top)))

\* The innermost call has visited its URIs and returns.
CallReturned(st) ==
    LET popped == [st EXCEPT !.frames = SubSeq(@, 1, Len(@) - 1)]
    IN  IF popped.frames = <<>> THEN [popped EXCEPT !.pc = "returned"] ELSE popped

Uris ==
    {LocalUri("a", FALSE, FALSE), LocalUri("a", TRUE, FALSE), LocalUri("a", FALSE, TRUE),
     LocalUri("b", FALSE, FALSE), LocalUri("c", FALSE, FALSE),
     FullUrl("a", TRUE, FALSE), FullUrl("a", TRUE, TRUE), EmptyUri}

\* The URIs style file b lists.
IncludesOfB ==
    {<<>>, <<LocalUri("a", FALSE, FALSE)>>, <<LocalUri("a", FALSE, TRUE), LocalUri("b", TRUE, FALSE)>>}

\* The configured styles.
ChosenStyles ==
    {<<LocalUri("a", FALSE, FALSE)>>, <<FullUrl("a", TRUE, FALSE)>>,
     <<LocalUri("b", FALSE, FALSE), LocalUri("a", TRUE, FALSE), LocalUri("b", TRUE, FALSE)>>}

IncludeCall(chosen_styles, of_a, of_b) ==
    /\ inc.pc = "none"
    /\ inc' = [NoInclusion EXCEPT !.pc = "running", !.frames = <<chosen_styles>>,
                                  !.chosen_styles = chosen_styles,
                                  !.includes = [f \in StyleFiles |-> IF f = "a" THEN of_a ELSE of_b]]
    /\ UNCHANGED <<blenderVars, codecVars, cmpVars, recVars, twVars, doc, mg, fx>>

IncludeNext ==
    /\ inc.pc = "running"
    /\ inc.frames[Len(inc.frames)] # <<>>
    /\ inc' = [VisitNext(inc) EXCEPT !.steps = @ + 1]
    /\ UNCHANGED <<blenderVars, codecVars, cmpVars, recVars, twVars, doc, mg, fx>>

IncludeReturn ==
    /\ inc.pc = "running"
    /\ inc.frames[Len(inc.frames)] = <<>>
    /\ inc' = [CallReturned(inc) EXCEPT !.steps = @ + 1]
    /\ UNCHANGED <<blenderVars, codecVars, cmpVars, recVars, twVars, doc, mg, fx>>

(***************************************************************************)
(* Fix then check: a comparison without unique keys, its missing and diff  *)
(* change-sets applied to actual by traverse_yaml_tree, and the comparison  *)
(* of the updated actual with the same expected.                            *)
(***************************************************************************)
NoFix ==
    [status |-> "none", actual |-> <<>>, expected |-> <<>>, first |-> NoComparison,
     fixed |-> <<>>, second |-> NoComparison]

\* compare_with_flatten(expected) of the document actual.
FirstCompared(actual, expected) ==
    [NoFix EXCEPT !.status = "compared", !.actual = actual, !.expected = expected,
                  !.first = compare_with_flatten(actual, expected, <<>>)]

\* traverse_yaml_tree with the change-set diff on what the change-set missing
\* left of the target.
ThenDiff(r, diff_dict) ==
    IF r.raised THEN r ELSE traverse_yaml_tree(r.obj, PyDict(diff_dict), 1)

\* The two change-sets applied, then compare_with_flatten again.
Checked(f, r) ==
    IF r.raised THEN [f EXCEPT !.status = "raised", !.fixed = r.obj[2]]
    ELSE [f EXCEPT !.status = "checked", !.fixed = r.obj[2],
                   !.second = compare_with_flatten(r.obj[2], f.expected, <<>>)]

FixCompare(actual, expected) ==
    /\ fx.status = "none"
    /\ fx' = FirstCompared(actual, expected)
    /\ UNCHANGED <<blenderVars, codecVars, cmpVars, recVars, twVars, doc, mg, inc>>

FixAndCheck ==
    /\ fx.status = "compared"
    /\ fx.first.status = "ok"
    /\ fx' = Checked(fx, ThenDiff(traverse_yaml_tree(PyDict(fx.actual), PyDict(fx.first.missing_dict), 1),
                                  fx.first.diff_dict))
    /\ UNCHANGED <<blenderVars, codecVars, cmpVars, recVars, twVars, doc, mg, inc>>


IdleApp ==
    /\ doc = NoDoc
    /\ mg = NoMerge
    /\ inc = NoInclusion
    /\ fx = NoFix

DocClasses == {"toml", "yaml", "json"}

Build(class, path, string, obj, null) ==
    /\ ~doc.built
    /\ doc' = NewDoc(class, path, string, obj, null)
    /\ UNCHANGED <<blenderVars, codecVars, cmpVars, recVars, twVars, mg, inc, fx>>

Access(d) ==
    /\ doc.built
    /\ doc.bodies < MaxLoads
    /\ doc' = d
    /\ UNCHANGED <<blenderVars, codecVars, cmpVars, recVars, twVars, mg, inc, fx>>

AccessLoad == Access(load(doc))

AccessObject == Access(as_object(doc))

AccessReformatted == Access(reformatted(doc))

LoadOther ==
    /\ doc.built
    /\ doc.age >= 0
    /\ doc' = Aged(doc)
    /\ UNCHANGED <<blenderVars, codecVars, cmpVars, recVars, twVars, mg, inc, fx>>

CodecFlatten(segs, sep) ==
    /\ cpc = "idle"
    /\ segments' = segs
    /\ codecSep' = sep
    /\ joined' = FlattenPath(segs, sep)
    /\ splitOut' = <<>>
    /\ cpc' = "joined"
    /\ UNCHANGED <<blenderVars, cmpVars, recVars, twVars, appVars>>

CodecSplit ==
    /\ cpc = "joined"
    /\ splitOut' = quoted_split(joined, codecSep)
    /\ cpc' = "split"
    /\ UNCHANGED <<segments, codecSep, joined, blenderVars, cmpVars, recVars, twVars, appVars>>

(***************************************************************************)
(* A run of the comparator.                                                *)
(***************************************************************************)
kk == <<"k">>
kp == <<"p">>
sx == PyStr(<<"x">>)
sy == PyStr(<<"y">>)
sxy == PyStr(<<"x", "y">>)
syx == PyStr(<<"y", "x">>)

\* An element with a unique key field k, and one holding such elements under p.
Keyed(key, n) == PyDict(<< <<kk, key>>, <<kb, PyInt(n)>> >>)
Parent(elems) == PyDict(<< <<kp, PyList(elems)>> >>)

\* The lists found under the key a of the compared documents.
CmpLists ==
    { <<>>,
      <<PyInt(1)>>,
      <<PyInt(1), PyInt(2)>>,
      <<PyDict(<< <<kb, PyInt(1)>> >>)>>,
      <<Keyed(sx, 1)>>,
      <<Keyed(sx, 2), Keyed(sy, 1)>>,
      <<Keyed(sxy, 1)>>,
      <<Keyed(sxy, 2), Keyed(syx, 1)>>,
      <<Parent(<<Keyed(sx, 1)>>)>>,
      <<Parent(<<Keyed(sx, 2)>>), Parent(<<Keyed(sy, 1)>>)>>,
      <<Parent(<<Keyed(sx, 1), Keyed(sy, 1)>>)>> }

\* The compared documents: a list or nothing under a, an integer or nothing
\* under b; and some documents of other shapes.
CmpDocs ==
    { (IF hasA THEN << <<ka, PyList(l)>> >> ELSE <<>>)
          \o (IF b >= 0 THEN << <<kb, PyInt(b)>> >> ELSE <<>>) :
        hasA \in BOOLEAN, l \in CmpLists, b \in -1..2 }
    \cup
    { << <<kc, PyDict(<<>>)>> >>,
      << <<kc, PyDict(<< <<kb, PyInt(1)>> >>)>>, <<kb, PyInt(1)>> >>,
      << <<kc, PyDict(<< <<kb, PyInt(0)>> >>)>>, <<kb, PyInt(1)>> >>,
      << <<kDotted, PyInt(1)>>, <<ka, PyDict(<< <<kb, PyInt(2)>> >>)>> >>,
      << <<kQuoted, PyInt(1)>> >>,
      << <<ka, PyInt(1)>> >> }

\* The unique_keys arguments: none, (k, ""), (k, p), and a value that does not
\* unpack into two.
CmpUniqueKeys ==
    { <<>>,
      << <<ka, <<kk, <<>>>>>> >>,
      << <<ka, <<kk, kp>>>> >>,
      << <<ka, <<kk>>>> >> }

Compare(actual, expected, unique_keys) ==
    /\ cmpOut.status = "none"
    /\ cmpIn' = [actual |-> actual, expected |-> expected, unique_keys |-> unique_keys]
    /\ cmpOut' = compare_with_flatten(actual, expected, unique_keys)
    /\ UNCHANGED <<blenderVars, codecVars, recVars, twVars, appVars>>

(***************************************************************************)
(* A run of the reconciler, and a second call with the merged list of the  *)
(* first as the actual list and the same expected list.                    *)
(***************************************************************************)
sa == PyStr(<<"a">>)
sb == PyStr(<<"b">>)
sc == PyStr(<<"c">>)

\* An element with the key field k and a list under p.
Entry(name, files) == PyDict(<< <<kk, name>>, <<kp, PyList(files)>> >>)

\* The elements of the reconciled lists.
RecElems ==
    { Entry(sx, <<sa>>), Entry(sx, <<sb>>), Entry(sy, <<sc>>),
      PyDict(<< <<kb, PyInt(1)>> >>),
      Parent(<<Keyed(sx, 1)>>), Parent(<<Keyed(sx, 2)>>),
      Parent(<<Keyed(sx, 1), Keyed(sx, 1)>>), Parent(<<Keyed(sx, 2), Keyed(sy, 1)>>) }

RecLists == {<<>>} \cup SeqsUpTo(RecElems, MaxElements)

\* nested_key and parent_key: (k, "") and (k, p)
RecKeys == { <<kk, <<>>>>, <<kk, kp>> }

Reconciliation(actual_list, expected_list, nested_key, parent_key, r) ==
    [status |-> IF r.raised THEN "raised" ELSE "ok",
     actual_list |-> actual_list, expected_list |-> expected_list,
     nested_key |-> nested_key, parent_key |-> parent_key,
     display |-> r.display, replace |-> r.replace,
     actual_after |-> r.actual, expected_after |-> r.expected]

Reconcile(actual_list, expected_list, nested_key, parent_key) ==
    /\ rec.status = "none"
    /\ rec' = Reconciliation(actual_list, expected_list, nested_key, parent_key,
                   search_element_by_unique_key(PyList(actual_list), PyList(expected_list),
                                                nested_key, parent_key))
    /\ UNCHANGED <<rec2, blenderVars, codecVars, cmpVars, twVars, appVars>>

ReconciledAgain(r) ==
    [status |-> IF r.raised THEN "raised" ELSE "ok", display |-> r.display,
     replace |-> r.replace]

ReconcileAgain ==
    /\ rec.status = "ok"
    /\ rec2.status = "none"
    /\ rec2' = ReconciledAgain(
                   search_element_by_unique_key(PyList(rec.replace), PyList(rec.expected_list),
                                                rec.nested_key, rec.parent_key))
    /\ UNCHANGED <<rec, blenderVars, codecVars, cmpVars, twVars, appVars>>

(***************************************************************************)
(* A run of a tree writer, and a second application of the same change-set *)
(* to the target the first one left.                                       *)
(***************************************************************************)
\* The values found under the key a of the targets and of the change-sets.
TwValues ==
    { PyInt(1), PyInt(2),
      PyDict(<<>>), PyDict(<< <<kb, PyInt(1)>> >>), PyDict(<< <<kb, PyInt(2)>>, <<kc, PyInt(1)>> >>),
      PyDict(<< <<kb, PyList(<<PyInt(1), PyInt(2)>>)>> >>),
      PyList(<<>>), PyList(<<PyInt(1)>>), PyList(<<PyInt(2), PyInt(1), PyInt(1)>>),
      PyList(<<PyDict(<< <<kb, PyInt(1)>> >>)>>),
      PyList(<<PyDict(<< <<kc, PyInt(2)>> >>), PyInt(2)>>),
      PyList(<<PyList(<<PyInt(1)>>)>>) }

\* Targets and change-sets: a value or nothing under a, an integer or nothing
\* under c, in either order.
TwDocs ==
    { PyDict((IF hasA THEN << <<ka, v>> >> ELSE <<>>) \o (IF n > 0 THEN << <<kc, PyInt(n)>> >> ELSE <<>>)) :
        hasA \in BOOLEAN, v \in TwValues, n \in 0..2 }
    \cup
    { PyDict(<< <<kc, PyInt(n)>>, <<ka, v>> >>) : v \in TwValues, n \in 1..1 }

\* The writer applied to a document.
Apply(writer, document, change) ==
    IF writer = "yaml" THEN traverse_yaml_tree(document, change, 1)
    ELSE traverse_toml_tree(document, change, 1)

WriteOutcome(writer, target, change, r) ==
    [status |-> IF r.raised THEN "raised" ELSE "ok", writer |-> writer, target |-> target,
     change |-> change, result |-> r.obj]

Write(writer, target, change) ==
    /\ tw.status = "none"
    /\ tw' = WriteOutcome(writer, target, change, Apply(writer, target, change))
    /\ UNCHANGED <<tw2, blenderVars, codecVars, cmpVars, recVars, appVars>>

WriteAgainOutcome(r) == [status |-> IF r.raised THEN "raised" ELSE "ok", result |-> r.obj]

WriteAgain ==
    /\ tw.status = "ok"
    /\ tw2.status = "none"
    /\ tw2' = WriteAgainOutcome(Apply(tw.writer, tw.result, tw.change))
    /\ UNCHANGED <<tw, blenderVars, codecVars, cmpVars, recVars, appVars>>

(***************************************************************************)
(* Specifications.                                                         *)
(***************************************************************************)
Init == InitBlender /\ IdleCodec /\ IdleCmp /\ IdleRec /\ IdleTw /\ IdleApp

Next ==
    \/ \E other \in Docs \cup AsIsDocs, arg \in {"None", "True", "False"} : Add(other, arg)
    \/ \E sort \in BOOLEAN : Mix(sort)
    \/ \E order \in {"reverse", "rotate"} : MixOther(order)

Spec == Init /\ [][Next]_vars

InitCodec == IdleBlender /\ IdleCodec /\ IdleCmp /\ IdleRec /\ IdleTw /\ IdleApp

NextCodec ==
    \/ \E segs \in SeqsUpTo(Segs, MaxSegments), sep \in {DOT, SEPARATOR_FLATTEN} :
          CodecFlatten(segs, sep)
    \/ CodecSplit

SpecCodec == InitCodec /\ [][NextCodec]_vars

InitCompare == IdleBlender /\ IdleCodec /\ IdleCmp /\ IdleRec /\ IdleTw /\ IdleApp

NextCompare ==
    \E actual \in CmpDocs, expected \in CmpDocs, unique_keys \in CmpUniqueKeys :
        Compare(actual, expected, unique_keys)

SpecCompare == InitCompare /\ [][NextCompare]_vars

InitReconcile == IdleBlender /\ IdleCodec /\ IdleCmp /\ IdleRec /\ IdleTw /\ IdleApp

NextReconcile ==
    \/ \E actual_list \in RecLists, expected_list \in RecLists, keys \in RecKeys :
          Reconcile(actual_list, expected_list, keys[1], keys[2])
    \/ ReconcileAgain

SpecReconcile == InitReconcile /\ [][NextReconcile]_vars

InitWrite == IdleBlender /\ IdleCodec /\ IdleCmp /\ IdleRec /\ IdleTw /\ IdleApp

NextWrite ==
    \/ \E writer \in {"yaml", "toml"}, target \in TwDocs, change \in TwDocs :
          Write(writer, target, change)
    \/ WriteAgain

SpecWrite == InitWrite /\ [][NextWrite]_vars

InitDoc == IdleBlender /\ IdleCodec /\ IdleCmp /\ IdleRec /\ IdleTw /\ IdleApp

NextDoc ==
    \/ \E class \in DocClasses : \E path, string, obj, null \in BOOLEAN :
          Build(class, path, string, obj, null)
    \/ AccessLoad
    \/ AccessObject
    \/ AccessReformatted
    \/ LoadOther

SpecDoc == InitDoc /\ [][NextDoc]_vars

InitInclude == IdleBlender /\ IdleCodec /\ IdleCmp /\ IdleRec /\ IdleTw /\ IdleApp

NextInclude ==
    \/ \E chosen_styles \in ChosenStyles : \E of_a \in SeqsUpTo(Uris, MaxIncludes) :
          \E of_b \in IncludesOfB : IncludeCall(chosen_styles, of_a, of_b)
    \/ IncludeNext
    \/ IncludeReturn

\* The loops of include_multiple_styles wait for nothing: a call that has not
\* ended takes its next step.
SpecInclude == InitInclude /\ [][NextInclude]_vars /\ WF_vars(NextInclude)

InitFix == IdleBlender /\ IdleCodec /\ IdleCmp /\ IdleRec /\ IdleTw /\ IdleApp

NextFix ==
    \/ \E actual \in CmpDocs, expected \in CmpDocs : FixCompare(actual, expected)
    \/ FixAndCheck

SpecFix == InitFix /\ [][NextFix]_vars

InitMerge == IdleBlender /\ IdleCodec /\ IdleCmp /\ IdleRec /\ IdleTw /\ IdleApp

NextMerge ==
    \/ \E cache_dir, dir \in BOOLEAN : \E merged \in TwDocs : MergeCall(cache_dir, dir, merged)
    \/ \E outcome \in AttemptOutcomes : MergeAttempt(outcome)

\* The loop runs without waiting for anything: a call that is in the loop makes
\* its next attempt.
SpecMerge == InitMerge /\ [][NextMerge]_vars /\ WF_vars(NextMerge)

(***************************************************************************)
(* What the add() calls of the history handed to the blender.              *)
(***************************************************************************)
RECURSIVE RawLeaves(_, _, _, _)
\* Every value of a document that is not a mapping, with the flat key of its
\* path, in the order the document is traversed.
RawLeaves(pairs, i, parent_key, sep) ==
    IF i > Len(pairs) THEN <<>>
    ELSE LET new_key == NewKey(parent_key, pairs[i][1], sep)
         IN  (IF IsDict(pairs[i][2])
              THEN RawLeaves(pairs[i][2][2], 1, new_key, sep)
              ELSE <<<<new_key, pairs[i][2]>>>>)
             \o RawLeaves(pairs, i + 1, parent_key, sep)

RECURSIVE AddedUpTo(_)
\* The <<flat key, value>> entries of the first n add() calls, in call order.
AddedUpTo(n) ==
    IF n = 0 THEN <<>>
    ELSE AddedUpTo(n - 1)
         \o (IF added[n].flatten THEN RawLeaves(added[n].doc, 1, <<>>, separator)
             ELSE added[n].doc)

EntriesUnder(k) == SelectSeq(AddedUpTo(Len(added)), LAMBDA e : e[1] = k)

RECURSIVE ConcatLists(_)
\* The lists among the entries, concatenated in order.
ConcatLists(es) ==
    IF es = <<>> THEN <<>>
    ELSE (IF IsList(es[1][2]) THEN es[1][2][2] ELSE <<>>) \o ConcatLists(Tail(es))

AllFlattened == \A i \in 1..Len(added) : added[i].flatten

RECURSIVE GetPath(_, _)
\* The value of a nested mapping at a path: <<"ok", value>> or <<"missing", <<>>>>.
GetPath(p, path) ==
    IF ~DictHas(p, path[1]) THEN <<"missing", <<>>>>
    ELSE IF Len(path) = 1 THEN <<"ok", DictGet(p, path[1])>>
    ELSE IF IsDict(DictGet(p, path[1])) THEN GetPath(DictGet(p, path[1])[2], Tail(path))
    ELSE <<"missing", <<>>>>

RECURSIVE AllKeys(_)
\* The keys of a mapping and of the mappings nested in it (not those in lists).
AllKeys(p) ==
    DictKeys(p) \cup UNION {IF IsDict(p[i][2]) THEN AllKeys(p[i][2][2]) ELSE {} : i \in 1..Len(p)}

RECURSIVE HasEmptyNested(_)
\* Some mapping nested in p is empty.
HasEmptyNested(p) ==
    \E i \in 1..Len(p) :
        /\ IsDict(p[i][2])
        /\ (p[i][2][2] = <<>> \/ HasEmptyNested(p[i][2][2]))

(***************************************************************************)
(* C1. Round trip of the Blender.                                          *)
(***************************************************************************)
RoundTripDone == Len(added) = 1 /\ added[1].flatten /\ mixed.status # "none"

\* C1 as claimed: for every mapping d whose keys do not contain the separator,
\* nested empty mappings and list values included, adding d to a fresh Blender
\* and mixing yields a mapping equal to d, key order ignored.
C1_RoundTripEveryMapping ==
    (RoundTripDone /\ \A k \in AllKeys(added[1].doc) : ~StrContains(k, separator))
        => (mixed.status = "ok" /\ PyEq(PyDict(mixed.value), PyDict(added[1].doc)))

\* C1 amended: the round trip holds, with the separators "." and "$#@", for
\* every mapping d with no empty nested mapping whose keys are non-empty and
\* contain neither the separator nor a quote character; list values included.
C1_RoundTrip ==
    (/\ RoundTripDone
     /\ \A k \in AllKeys(added[1].doc) :
           k # <<>> /\ ~StrContains(k, separator) /\ ~HasQuote(k)
     /\ ~HasEmptyNested(added[1].doc))
        => (mixed.status = "ok" /\ PyEq(PyDict(mixed.value), PyDict(added[1].doc)))

C1_Witness ==
    /\ RoundTripDone
    /\ added[1].doc = << <<kb, PyInt(1)>>,
                         <<ka, PyDict(<< <<kc, PyInt(1)>>, <<kb, PyList(<<PyInt(1)>>)>> >>)>> >>
    /\ mixed.status = "ok"
    /\ mixed.sort
    /\ mixed.value # added[1].doc
    /\ PyEq(PyDict(mixed.value), PyDict(added[1].doc))

(***************************************************************************)
(* C2. Comparator soundness.                                               *)
(***************************************************************************)
Compared == cmpOut.status # "none"

\* Every flat entry of the flattened expected document is in the flattened
\* actual document with an equal value.
ExpectedWithinActual ==
    \A i \in 1..Len(cmpOut.flat_expected) :
        \E j \in 1..Len(cmpOut.flat_actual) :
            /\ cmpOut.flat_actual[j][1] = cmpOut.flat_expected[i][1]
            /\ PyEq(cmpOut.flat_actual[j][2], cmpOut.flat_expected[i][2])

\* C2: if every flat (key, value) entry of flattened expected is present with
\* an equal value in flattened actual, compare_with_flatten returns a Comparison
\* whose missing, diff and replace buckets are empty and whose has_changes is
\* false.
C2_Soundness ==
    (Compared /\ ExpectedWithinActual)
        => /\ cmpOut.status = "ok"
           /\ cmpOut.missing_dict = <<>>
           /\ cmpOut.diff_dict = <<>>
           /\ cmpOut.replace_dict = <<>>
           /\ ~cmpOut.has_changes

C2_Witness ==
    /\ Compared
    /\ ExpectedWithinActual
    /\ cmpIn.actual = << <<ka, PyList(<<Keyed(sx, 2), Keyed(sy, 1)>>)>>, <<kb, PyInt(1)>> >>
    /\ cmpIn.expected = << <<ka, PyList(<<Keyed(sx, 2), Keyed(sy, 1)>>)>> >>
    /\ cmpIn.unique_keys # <<>>
    /\ cmpOut.status = "ok"
    /\ ~cmpOut.has_changes

(***************************************************************************)
(* C3. Comparator completeness.                                            *)
(***************************************************************************)
EmptyActual == Compared /\ cmpIn.actual = <<>> /\ cmpIn.expected # <<>>

AllMissing ==
    /\ cmpOut.status = "ok"
    /\ PyEq(PyDict(cmpOut.missing_dict), PyDict(cmpIn.expected))
    /\ cmpOut.diff_dict = <<>>
    /\ cmpOut.replace_dict = <<>>

\* C3 as claimed: when the actual document is the empty mapping, for every
\* non-empty expected mapping compare_with_flatten yields missing structurally
\* equal to expected, and diff and replace both empty.
C3_CompletenessEveryMapping == EmptyActual => AllMissing

\* C3 amended: when the actual document is the empty mapping, for every
\* non-empty expected mapping that holds no empty nested mapping and whose keys
\* are non-empty and contain neither a quote character nor the text "#$@",
\* missing is structurally equal to expected, and diff and replace are empty.
C3_Completeness ==
    (/\ EmptyActual
     /\ ~HasEmptyNested(cmpIn.expected)
     /\ \A k \in AllKeys(cmpIn.expected) :
           k # <<>> /\ ~HasQuote(k) /\ ~StrContains(k, SEPARATOR_QUOTED_SPLIT))
        => AllMissing

C3_Witness ==
    /\ EmptyActual
    /\ cmpIn.expected = << <<ka, PyList(<<Keyed(sx, 2), Keyed(sy, 1)>>)>>, <<kb, PyInt(0)>> >>
    /\ cmpIn.unique_keys # <<>>
    /\ ~cmpOut.fast
    /\ cmpOut.missing_dict = cmpIn.expected
    /\ cmpOut.has_changes

(***************************************************************************)
(* C4. Comparator scalar rule.                                             *)
(***************************************************************************)
\* C4 as claimed: every expected flat key that is present in flattened actual,
\* whose expected value is not a sequence and is unequal to the actual value, is
\* recorded in the diff bucket with the expected value, whatever that value is.
C4_ScalarRule ==
    cmpOut.status = "ok"
        => \A i \in 1..Len(cmpOut.flat_expected) :
              LET key == cmpOut.flat_expected[i][1]
                  expected_value == cmpOut.flat_expected[i][2]
              IN  (/\ DictHas(cmpOut.flat_actual, key)
                   /\ ~IsList(expected_value)
                   /\ ~PyEq(expected_value, DictGet(cmpOut.flat_actual, key)))
                     => /\ DictHas(cmpOut.diff, key)
                        /\ DictGet(cmpOut.diff, key) = expected_value

(***************************************************************************)
(* C5. List extension.                                                     *)
(***************************************************************************)
\* C5: with extend_lists enabled and every add flattening, a flat key whose
\* most recently added value is a sequence holds the concatenation, in call
\* order, of all the sequences added under that key (order and duplicates kept).
C5_ListsExtend ==
    (extend_lists /\ AllFlattened)
        => \A k \in DictKeys(flat) :
              LET es == EntriesUnder(k)
              IN  IsList(es[Len(es)][2]) => DictGet(flat, k) = PyList(ConcatLists(es))

C5_Witness ==
    /\ extend_lists
    /\ AllFlattened
    /\ Len(added) = 2
    /\ added[1].doc = << <<ka, PyList(<<PyInt(1)>>)>> >>
    /\ added[2].doc = << <<ka, PyList(<<PyInt(2), PyInt(1)>>)>> >>
    /\ DictGet(flat, ka) = PyList(<<PyInt(1), PyInt(2), PyInt(1)>>)

(***************************************************************************)
(* C6. Replace on collision.                                               *)
(***************************************************************************)
\* C6 as claimed: after any sequence of add calls, for every flat key whose
\* added values are not sequences (or any key when extend_lists is disabled),
\* the flat value, and the value mix returns at the key's path, is the value of
\* the most recent add that contained the key.
C6_ReplaceOnCollision ==
    mixed.status # "none"
        => \A k \in DictKeys(flat) :
              LET es == EntriesUnder(k)
                  last == es[Len(es)][2]
              IN  (~extend_lists \/ \A i \in 1..Len(es) : ~IsList(es[i][2]))
                    => /\ DictGet(flat, k) = last
                       /\ mixed.status = "ok"
                       /\ GetPath(mixed.value, quoted_split(k, separator)) = <<"ok", last>>

(***************************************************************************)
(* C7. mix is deterministic under sort.                                    *)
(***************************************************************************)
\* C7: with sort true, a second Blender holding the same flat entries in another
\* insertion order returns from mix the same outcome: the same nested value
\* with the same key order at every level.
C7_MixDeterministic ==
    (mixed2.status # "none" /\ mixed.sort)
        => (mixed2.status = mixed.status /\ mixed2.value = mixed.value)

C7_Witness ==
    /\ mixed.sort
    /\ mixed2.status = "ok"
    /\ mixed2.flat # flat
    /\ Len(flat) >= 3
    /\ \E i \in 1..Len(mixed.value) : IsDict(mixed.value[i][2])
    /\ mixed2.value = mixed.value
    /\ Unflatten(flat, separator, FALSE) # Unflatten(mixed2.flat, separator, FALSE)

(***************************************************************************)
(* C8. Totality of add and mix.                                            *)
(***************************************************************************)
\* C8 as claimed: for every sequence of add calls with mapping-rooted
\* documents, add and the following mix complete without raising.
C8_MixNeverRaises == AllFlattened => mixed.status # "raised"

(***************************************************************************)
(* C9. Key codec round trip.                                               *)
(***************************************************************************)
\* C9 as claimed: for every list of segments, joining as _flatten does and
\* splitting with quoted_split returns the original segments.
C9_CodecRoundTripEverySegment == cpc = "split" => splitOut = segments

\* C9 amended: the round trip holds, with the separators "." and "$#@", for
\* every list of non-empty segments that contain no quote character and not
\* the text "#$@"; a segment may contain the separator.
C9_CodecRoundTrip ==
    (/\ cpc = "split"
     /\ \A i \in 1..Len(segments) :
           /\ segments[i] # <<>>
           /\ ~HasQuote(segments[i])
           /\ ~StrContains(segments[i], SEPARATOR_QUOTED_SPLIT))
        => splitOut = segments

C9_Witness ==
    /\ cpc = "split"
    /\ codecSep = DOT
    /\ segments = <<kDotted, kc>>
    /\ joined = <<"\"", "a", ".", "b", "\"", ".", "c">>
    /\ splitOut = <<kDotted, kc>>

(***************************************************************************)
(* C10. Comparator unique-key rule.                                        *)
(***************************************************************************)
\* The flat key is in both flattened documents, its expected value is a
\* sequence and unique_keys registers a pair with a nested field for it.
Delegated(key) ==
    /\ DictHas(cmpOut.flat_expected, key)
    /\ DictHas(cmpOut.flat_actual, key)
    /\ IsList(DictGet(cmpOut.flat_expected, key))
    /\ DictHas(cmpIn.unique_keys, key)
    /\ Len(DictGet(cmpIn.unique_keys, key)) = 2
    /\ DictGet(cmpIn.unique_keys, key)[1] # <<>>

\* What search_element_by_unique_key returns for the key.
Reconciled(key) ==
    search_element_by_unique_key(DictGet(cmpOut.flat_actual, key),
                                 DictGet(cmpOut.flat_expected, key),
                                 DictGet(cmpIn.unique_keys, key)[1],
                                 DictGet(cmpIn.unique_keys, key)[2])

\* The bucket holds value under key if and only if cond holds.
RecordedIff(bucket, key, value, cond) ==
    /\ DictHas(bucket, key) <=> cond
    /\ DictHas(bucket, key) => DictGet(bucket, key) = value

\* C10 as claimed: for such a key the returned new elements are recorded under
\* it in missing if and only if they are non-empty, and the returned whole
\* merged list is recorded under it in replace if and only if it is non-empty.
C10_UniqueKeyRuleWholeList ==
    (cmpOut.status = "ok" /\ ~cmpOut.fast)
        => \A key \in DictKeys(cmpOut.flat_expected) :
              Delegated(key)
                => /\ RecordedIff(cmpOut.missing, key, PyList(Reconciled(key).display),
                                  Reconciled(key).display # <<>>)
                   /\ RecordedIff(cmpOut.replace, key, PyList(Reconciled(key).replace),
                                  Reconciled(key).replace # <<>>)

\* C10 amended: when the fast path is not taken and the call returns, the
\* returned new elements are recorded under the key in missing if and only if
\* they are non-empty, and the returned whole merged list is recorded under the
\* key in replace if and only if the new elements are non-empty.
C10_UniqueKeyRule ==
    (cmpOut.status = "ok" /\ ~cmpOut.fast)
        => \A key \in DictKeys(cmpOut.flat_expected) :
              Delegated(key)
                => /\ RecordedIff(cmpOut.missing, key, PyList(Reconciled(key).display),
                                  Reconciled(key).display # <<>>)
                   /\ RecordedIff(cmpOut.replace, key, PyList(Reconciled(key).replace),
                                  Reconciled(key).display # <<>>)

C10_Witness ==
    /\ cmpOut.status = "ok"
    /\ ~cmpOut.fast
    /\ Delegated(ka)
    /\ DictGet(cmpOut.flat_actual, ka) = PyList(<<Parent(<<Keyed(sx, 1)>>)>>)
    /\ DictHas(cmpOut.missing, ka)
    /\ DictHas(cmpOut.replace, ka)
    /\ DictGet(cmpOut.missing, ka)
          = PyList(<<Parent(<<Keyed(sx, 2)>>), Parent(<<Keyed(sy, 1)>>)>>)
    /\ DictGet(cmpOut.replace, ka)
          = PyList(<<Parent(<<Keyed(sx, 2)>>), Parent(<<Keyed(sy, 1)>>)>>)
    /\ cmpOut.has_changes

(***************************************************************************)
(* C11. Comparator plain-list rule.                                        *)
(***************************************************************************)
\* The flat key is in both flattened documents, its expected value is a
\* sequence and no unique key is registered for it.
PlainList(key) ==
    /\ DictHas(cmpOut.flat_expected, key)
    /\ DictHas(cmpOut.flat_actual, key)
    /\ IsList(DictGet(cmpOut.flat_expected, key))
    /\ ~Delegated(key)

\* expected is a proper prefix of actual
ProperPrefix(expected, actual) ==
    /\ IsList(actual)
    /\ Len(expected[2]) < Len(actual[2])
    /\ \A i \in 1..Len(expected[2]) : PyEq(expected[2][i], actual[2][i])

InNoBucket(key) ==
    /\ ~DictHas(cmpOut.missing, key)
    /\ ~DictHas(cmpOut.diff, key)
    /\ ~DictHas(cmpOut.replace, key)

\* C11: an expected flat key present in actual whose expected value is a
\* sequence with no unique key registered is recorded in diff exactly when the
\* structural diff of the actual value against the expected list, restricted to
\* additions and changes, is non-empty, and never in missing or replace; when
\* expected is a proper prefix of actual the key is in no bucket.
C11_PlainListRule ==
    cmpOut.status = "ok"
        => \A key \in DictKeys(cmpOut.flat_expected) :
              PlainList(key)
                => /\ DictHas(cmpOut.diff, key)
                         <=> HasAddOrChange(DictGet(cmpOut.flat_actual, key),
                                            DictGet(cmpOut.flat_expected, key))
                   /\ ~DictHas(cmpOut.missing, key)
                   /\ ~DictHas(cmpOut.replace, key)
                   /\ ProperPrefix(DictGet(cmpOut.flat_expected, key),
                                   DictGet(cmpOut.flat_actual, key)) => InNoBucket(key)

C11_Witness ==
    /\ cmpOut.status = "ok"
    /\ ~cmpOut.fast
    /\ PlainList(ka)
    /\ cmpIn.actual = << <<ka, PyList(<<PyInt(1), PyInt(2)>>)>>, <<kb, PyInt(1)>> >>
    /\ cmpIn.expected = << <<ka, PyList(<<PyInt(1)>>)>>, <<kb, PyInt(2)>> >>
    /\ InNoBucket(ka)
    /\ cmpOut.diff_dict = << <<kb, PyInt(2)>> >>

(***************************************************************************)
(* C12. Bucket disjointness.                                               *)
(***************************************************************************)
\* C12 as claimed: in every Comparison returned by compare_with_flatten no flat
\* key of expected is in more than one of the buckets missing, diff and replace.
C12_BucketsPairwiseDisjoint ==
    cmpOut.status = "ok"
        => \A key \in DictKeys(cmpOut.flat_expected) :
              /\ ~(DictHas(cmpOut.missing, key) /\ DictHas(cmpOut.diff, key))
              /\ ~(DictHas(cmpOut.diff, key) /\ DictHas(cmpOut.replace, key))
              /\ ~(DictHas(cmpOut.missing, key) /\ DictHas(cmpOut.replace, key))

\* C12 amended: in every Comparison returned by compare_with_flatten the diff
\* bucket shares no flat key with missing or with replace; every key of replace
\* is also in missing, and only a key delegated to search_element_by_unique_key
\* is in replace.
C12_DiffDisjoint ==
    cmpOut.status = "ok"
        => \A key \in DictKeys(cmpOut.flat_expected) :
              /\ ~(DictHas(cmpOut.missing, key) /\ DictHas(cmpOut.diff, key))
              /\ ~(DictHas(cmpOut.diff, key) /\ DictHas(cmpOut.replace, key))
              /\ DictHas(cmpOut.replace, key) => (DictHas(cmpOut.missing, key) /\ Delegated(key))

C12_Witness ==
    /\ cmpOut.status = "ok"
    /\ cmpIn.actual = << <<ka, PyList(<<Parent(<<Keyed(sx, 1)>>)>>)>>, <<kb, PyInt(1)>> >>
    /\ cmpIn.expected = << <<ka, PyList(<<Parent(<<Keyed(sx, 2)>>), Parent(<<Keyed(sy, 1)>>)>>)>>,
                           <<kb, PyInt(2)>> >>
    /\ DictKeys(cmpOut.missing) = {ka}
    /\ DictKeys(cmpOut.replace) = {ka}
    /\ DictKeys(cmpOut.diff) = {kb}

(***************************************************************************)
(* C13. The reconciler never removes.                                      *)
(***************************************************************************)
\* merged is the actual element, or a copy of it that differs only in the list
\* under parent_key, which has the same length.
SameOrUpdated(element, merged, parent_key) ==
    \/ merged = element
    \/ /\ IsDict(element)
       /\ IsDict(merged)
       /\ DictKeys(merged[2]) = DictKeys(element[2])
       /\ \A key \in DictKeys(element[2]) :
             \/ DictGet(merged[2], key) = DictGet(element[2], key)
             \/ /\ key = parent_key
                /\ IsList(DictGet(element[2], key))
                /\ IsList(DictGet(merged[2], key))
                /\ Len(DictGet(merged[2], key)[2]) = Len(DictGet(element[2], key)[2])

\* C13: the merged list search_element_by_unique_key returns is at least as
\* long as actual_list, and at every index of actual_list it holds the actual
\* element or an updated copy of it whose nested list has the same length.
C13_NeverRemoves ==
    rec.status = "ok"
        => /\ Len(rec.replace) >= Len(rec.actual_list)
           /\ \A i \in 1..Len(rec.actual_list) :
                 SameOrUpdated(rec.actual_list[i], rec.replace[i], rec.parent_key)

C13_Witness ==
    /\ rec.status = "ok"
    /\ rec.parent_key = kp
    /\ rec.actual_list = <<Parent(<<Keyed(sx, 1), Keyed(sx, 1)>>)>>
    /\ rec.expected_list = <<Parent(<<Keyed(sx, 2), Keyed(sy, 1)>>)>>
    /\ rec.replace = <<Parent(<<Keyed(sx, 2), Keyed(sx, 1)>>), Parent(<<Keyed(sx, 2)>>)>>

(***************************************************************************)
(* C14. Idempotence of the reconciler.                                     *)
(***************************************************************************)
\* C14 as claimed: when search_element_by_unique_key returned the merged list M,
\* calling it again with M as the actual list and the same expected list yields
\* no new elements and the merged list M.
C14_Idempotent ==
    rec2.status # "none"
        => /\ rec2.status = "ok"
           /\ rec2.display = <<>>
           /\ rec2.replace = rec.replace

(***************************************************************************)
(* C15. Matching by unique key without a parent field.                     *)
(***************************************************************************)
\* The unique key values an element carries.
KeysOf(element) ==
    {k \in {sx, sy, sxy, syx, sa, sb, sc} :
        InList(k, AlwaysIterable(Or(SearchKeys(element, rec.nested_key, rec.parent_key), None)))}

\* The expected elements none of whose key values is carried by an actual element.
NewByKey ==
    {j \in 1..Len(rec.expected_list) :
        \A i \in 1..Len(rec.actual_list) :
            KeysOf(rec.expected_list[j]) \cap KeysOf(rec.actual_list[i]) = {}}

\* C15 as claimed: with nested_key given and no parent_key, an expected element
\* whose key value equals the key of an actual element is merged into it and
\* not appended, and an expected element whose key value is new is appended
\* whole; for actual [{k: x, p: [a]}] and expected [{k: x, p: [b]}, {k: y, p: [c]}]
\* the merged list has length 2 and the entry of x holds a and b.
C15_MatchedByKey ==
    (rec.status # "none" /\ rec.parent_key = <<>>)
        => /\ rec.status = "ok"
           /\ Len(rec.replace) = Len(rec.actual_list) + Cardinality(NewByKey)
           /\ \A j \in NewByKey : \E n \in 1..Len(rec.replace) :
                 n > Len(rec.actual_list) /\ rec.replace[n] = rec.expected_list[j]
           /\ (/\ rec.actual_list = <<Entry(sx, <<sa>>)>>
               /\ rec.expected_list = <<Entry(sx, <<sb>>), Entry(sy, <<sc>>)>>)
                  => rec.replace = <<Entry(sx, <<sa, sb>>), Entry(sy, <<sc>>)>>

(***************************************************************************)
(* C16. Which of several matching positions is used.                       *)
(***************************************************************************)
\* The actual element at index i was changed by the call.
Changed(i) == rec.replace[i] # rec.actual_list[i]

\* Index i is the first (the last) index of actual_list that carries key.
FirstCarrier(i, key) ==
    /\ key \in KeysOf(rec.actual_list[i])
    /\ \A h \in 1..(i - 1) : key \notin KeysOf(rec.actual_list[h])

LastCarrier(i, key) ==
    /\ key \in KeysOf(rec.actual_list[i])
    /\ \A h \in (i + 1)..Len(rec.actual_list) : key \notin KeysOf(rec.actual_list[h])

\* In a changed element a changed sub-element is the first one of its value:
\* a later sub-element equal to it is left as it was.
FirstSubElementOnly(i) ==
    LET before == DictGet(rec.actual_list[i][2], rec.parent_key)[2]
        after == DictGet(rec.replace[i][2], rec.parent_key)[2]
    IN  \A n \in 1..Len(before) :
            after[n] # before[n] => \A m \in 1..(n - 1) : before[m] # before[n]

\* C16 as claimed: when the key value of an expected element matches several
\* actual elements, or several sub-elements equal the pre-diff nested value,
\* only the first matching position is used and replaced.
C16_FirstMatchWins ==
    rec.status = "ok"
        => \A i \in 1..Len(rec.actual_list) :
              Changed(i) => /\ \E key \in KeysOf(rec.actual_list[i]) : FirstCarrier(i, key)
                            /\ FirstSubElementOnly(i)

\* C16 amended: of several actual elements that carry the key value the last
\* one is used and the earlier ones are left unchanged; in its nested list only
\* the first sub-element equal to the pre-diff nested value is replaced.
C16_LastElementFirstSubElement ==
    rec.status = "ok"
        => \A i \in 1..Len(rec.actual_list) :
              Changed(i) => /\ \E key \in KeysOf(rec.actual_list[i]) : LastCarrier(i, key)
                            /\ FirstSubElementOnly(i)

C16_Witness ==
    /\ rec.status = "ok"
    /\ rec.parent_key = kp
    /\ rec.actual_list = <<Parent(<<Keyed(sx, 1)>>), Parent(<<Keyed(sx, 1), Keyed(sx, 1)>>)>>
    /\ rec.expected_list = <<Parent(<<Keyed(sx, 2)>>)>>
    /\ rec.replace = <<Parent(<<Keyed(sx, 1)>>), Parent(<<Keyed(sx, 2), Keyed(sx, 1)>>)>>

(***************************************************************************)
(* C17. Idempotence of the tree writers.                                   *)
(***************************************************************************)
\* C17: for every target and change-set on which the writer (traverse_yaml_tree
\* or traverse_toml_tree) succeeds, applying the change-set once more leaves the
\* target in the state the first application left.
C17_WriterIdempotent ==
    tw2.status # "none" => tw2.result = tw.result

C17_Witness ==
    /\ tw2.status = "ok"
    /\ tw.writer = "yaml"
    /\ tw.target = PyDict(<< <<ka, PyList(<<PyInt(1)>>)>> >>)
    /\ tw.change = PyDict(<< <<ka, PyList(<<PyInt(2), PyInt(1), PyInt(1)>>)>>, <<kc, PyInt(1)>> >>)
    /\ tw.result = tw.change
    /\ tw2.result = tw.result

(***************************************************************************)
(* C18. The tree writers never delete.                                     *)
(***************************************************************************)
RECURSIVE KeptAll(_, _)
\* Every key path of before exists in after and every sequence of before is a
\* sequence at least as long in after.
KeptAll(before, after) ==
    CASE IsDict(before) ->
             /\ IsDict(after)
             /\ \A key \in DictKeys(before[2]) :
                   /\ DictHas(after[2], key)
                   /\ KeptAll(DictGet(before[2], key), DictGet(after[2], key))
      [] IsList(before) ->
             /\ IsList(after)
             /\ Len(after[2]) >= Len(before[2])
             /\ \A i \in 1..Len(before[2]) : KeptAll(before[2][i], after[2][i])
      [] OTHER -> TRUE

RECURSIVE Kept(_, _, _)
\* A mapping that is still a mapping has kept its keys and, with the YAML
\* writer, a sequence that is still a sequence has kept its length; a mapping or
\* sequence is lost only as a value overwritten by a scalar or, with the TOML
\* writer, by a sequence.
Kept(before, after, writer) ==
    CASE IsDict(before) /\ IsDict(after) ->
             \A key \in DictKeys(before[2]) :
                 /\ DictHas(after[2], key)
                 /\ Kept(DictGet(before[2], key), DictGet(after[2], key), writer)
      [] IsList(before) /\ IsList(after) /\ writer = "yaml" ->
             /\ Len(after[2]) >= Len(before[2])
             /\ \A i \in 1..Len(before[2]) : Kept(before[2][i], after[2][i], writer)
      [] OTHER -> is_scalar(before) \/ is_scalar(after) \/ (writer = "toml" /\ IsList(after))

RECURSIVE Frame(_, _, _, _)
\* What the change-set does not mention is unchanged: in a mapping the keys of
\* before keep their positions, those absent from the change keep their values
\* and the new keys follow them; in a sequence (when sequences tells that the
\* writer merges sequences) the elements beyond the change sequence keep their
\* values.
Frame(before, after, change, sequences) ==
    CASE IsDict(before) /\ IsDict(change) ->
             /\ IsDict(after)
             /\ Len(after[2]) >= Len(before[2])
             /\ \A i \in 1..Len(before[2]) :
                   /\ after[2][i][1] = before[2][i][1]
                   /\ IF DictHas(change[2], before[2][i][1])
                      THEN Frame(before[2][i][2], after[2][i][2],
                                 DictGet(change[2], before[2][i][1]), sequences)
                      ELSE after[2][i][2] = before[2][i][2]
             /\ \A i \in (Len(before[2]) + 1)..Len(after[2]) :
                   /\ ~DictHas(before[2], after[2][i][1])
                   /\ DictHas(change[2], after[2][i][1])
                   /\ after[2][i][2] = DictGet(change[2], after[2][i][1])
      [] IsList(before) /\ IsList(change) /\ sequences ->
             /\ IsList(after)
             /\ Len(after[2]) >= Len(before[2])
             /\ \A i \in 1..Len(before[2]) :
                   IF i <= Len(change[2])
                   THEN Frame(before[2][i], after[2][i], change[2][i], sequences)
                   ELSE after[2][i] = before[2][i]
      [] OTHER -> TRUE

RuleElement(existing, value, i) ==
    IF i > Len(existing[2]) THEN value[2][i]
    ELSE IF is_scalar(existing[2][i]) THEN value[2][i]
    ELSE IF is_scalar(value[2][i]) THEN value[2][i]
    ELSE traverse_yaml_tree(existing[2][i], value[2][i], 1).obj

\* C20: when a key is present in the target with a sequence and the change
\* value is a sequence, then for each index i of the change sequence: at or
\* beyond the length of the existing sequence the element is appended; else a
\* scalar existing element is replaced wholesale by the new element; else a
\* scalar new element replaces the existing one; else the writer recurses into
\* the existing element with the new element as change-set.
C20_SequenceRule ==
    (tw.status = "ok" /\ tw.writer = "yaml")
        => \A key \in DictKeys(tw.change[2]) :
              LET value == DictGet(tw.change[2], key)
                  existing == IF DictHas(tw.target[2], key) THEN DictGet(tw.target[2], key) ELSE None
                  after == DictGet(tw.result[2], key)
              IN  (IsList(value) /\ IsList(existing))
                    => /\ IsList(after)
                       /\ Len(after[2]) = (IF Len(value[2]) > Len(existing[2])
                                           THEN Len(value[2]) ELSE Len(existing[2]))
                       /\ \A i \in 1..Len(value[2]) : after[2][i] = RuleElement(existing, value, i)

C20_Witness ==
    /\ tw.status = "ok"
    /\ tw.writer = "yaml"
    /\ tw.target = PyDict(<< <<ka, PyList(<<PyInt(1)>>)>> >>)
    /\ tw.change = PyDict(<< <<ka, PyList(<<PyDict(<< <<kc, PyInt(2)>> >>), PyInt(2)>>)>> >>)
    /\ tw.result = tw.change

(***************************************************************************)
(* C21. Memoized load of a Document.                                       *)
(***************************************************************************)
\* C21: for every Document and every sequence of as_object / reformatted / load
\* accesses, the source is read at most once and parsed at most once, however
\* many other Documents are loaded in between.
C21_LoadedOnce ==
    doc.reads <= 1 /\ doc.parses <= 1

(***************************************************************************)
(* C22. Bounded retry of the merged-style write.                           *)
(***************************************************************************)
\* Every attempt but the last one raised OSError.
RetriedAfterOSError ==
    \A i \in 1..(Len(mg.outcomes) - 1) : mg.outcomes[i] \in {"mkdir OSError", "write OSError"}

MergeEnded == mg.pc \in {"returned", "raised"}

\* C22 as claimed: at most 4 attempts, none after a success, a retry only after
\* an OSError, and the call always ends returning the merged dictionary.
C22_AlwaysReturnsMerged ==
    /\ Len(mg.outcomes) < AttemptLimit
    /\ RetriedAfterOSError
    /\ MergeEnded => (mg.pc = "returned" /\ mg.result = mg.merged)

C22_Bounded ==
    /\ Len(mg.outcomes) < AttemptLimit
    /\ RetriedAfterOSError
    /\ (mg.pc = "returned" /\ mg.cache_dir) => mg.result = mg.merged
    /\ (mg.pc = "returned" /\ ~mg.cache_dir) => (mg.result = PyDict(<<>>) /\ mg.outcomes = <<>>)
    /\ mg.pc = "raised" => mg.outcomes[Len(mg.outcomes)] = "write other"

\* C22 amended: with a cache dir configured, merge_toml_dict makes at most 4
\* attempts, none after a success, a retry only after an OSError, and ends:
\* returning the merged dictionary, also when every attempt raised OSError, or
\* raising the exception of an attempt that is not an OSError; with no cache dir
\* it makes no attempt and returns an empty dictionary.
C22_BoundedRetry ==
    []C22_Bounded /\ (mg.pc = "loop" ~> MergeEnded)

C22_Witness ==
    /\ mg.pc = "returned"
    /\ mg.outcomes = <<"mkdir OSError", "write OSError", "write OSError", "write OSError">>
    /\ mg.merged # PyDict(<<>>)
    /\ mg.result = mg.merged
    /\ mg.file = None

(***************************************************************************)
(* C23. Style inclusion terminates and includes once.                      *)
(***************************************************************************)
\* No path occurs twice in the merged styles, and each is in _already_included.
IncludedOnce ==
    /\ \A i, j \in 1..Len(inc.all_styles) : inc.all_styles[i] = inc.all_styles[j] => i = j
    /\ \A i \in 1..Len(inc.all_styles) : inc.all_styles[i] \in inc.already_included

RECURSIVE StepsOwed(_)
\* The steps the styles included so far account for: for each of the first n,
\* one visit for every URI it lists and the return of the call that visits them.
StepsOwed(n) ==
    IF n = 0 THEN 0
    ELSE StepsOwed(n - 1) + Len(inc.includes[inc.all_styles[n][2]]) + 1

\* The paths a style can be included under.
StylePaths == {"file", "url"} \X StyleFiles \X BOOLEAN

\* C23: over any include graph, also a cyclic one or one that lists a style
\* several times, include_multiple_styles adds each resolved style path or URL
\* to the merged styles at most once, and the recursion over sub-styles ends:
\* a call that has not ended has a next step, and the steps taken never exceed
\* the visits and returns of the configured styles and of the styles included,
\* which are at most as many as there are paths.
C23_IncludesOnceAndEnds ==
    /\ IncludedOnce
    /\ inc.already_included \subseteq StylePaths
    /\ inc.pc = "running" => inc.frames # <<>>
    /\ inc.steps <= Len(inc.chosen_styles) + 1 + StepsOwed(Len(inc.all_styles))

\* a includes b, b includes a and (under another spelling) itself.
C23_Witness ==
    /\ inc.pc = "returned"
    /\ inc.includes["a"] = <<LocalUri("b", FALSE, FALSE), LocalUri("a", TRUE, FALSE)>>
    /\ inc.includes["b"] = <<LocalUri("a", FALSE, FALSE)>>
    /\ inc.all_styles = << <<"file", "a", FALSE>>, <<"file", "b", FALSE>> >>

(***************************************************************************)
(* C24. The comparator reports only expected keys.                         *)
(***************************************************************************)
\* The flat keys reported in a bucket.
ReportedKeys ==
    DictKeys(cmpOut.missing) \cup DictKeys(cmpOut.diff) \cup DictKeys(cmpOut.replace)

\* The flat keys that exist only in actual.
OnlyInActual == DictKeys(cmpOut.flat_actual) \ DictKeys(cmpOut.flat_expected)

\* C24: in every Comparison returned by compare_with_flatten, every flat key
\* in missing, diff or replace is a flat key of the flattened expected document;
\* a key that exists only in actual is in no bucket, and has_changes is true
\* only when some key of expected is reported.
C24_OnlyExpectedKeys ==
    cmpOut.status = "ok"
        => /\ ReportedKeys \subseteq DictKeys(cmpOut.flat_expected)
           /\ ReportedKeys \cap OnlyInActual = {}
           /\ cmpOut.has_changes => (ReportedKeys # {} /\ ~ExpectedWithinActual)

C24_Witness ==
    /\ cmpOut.status = "ok"
    /\ cmpOut.has_changes
    /\ OnlyInActual = {kb}
    /\ DictKeys(cmpOut.flat_expected) = {ka}
    /\ DictKeys(cmpOut.diff) = {ka}
    /\ cmpOut.missing = <<>>

(***************************************************************************)
(* C25. The reconciler and its inputs.                                     *)
(***************************************************************************)
\* C25: after search_element_by_unique_key returns, actual_list and
\* expected_list and all their elements and nested sub-lists are equal to what
\* they were before the call.
C25_InputsUnchanged ==
    rec.status = "ok"
        => /\ rec.actual_after = rec.actual_list
           /\ rec.expected_after = rec.expected_list

(***************************************************************************)
(* C26. Fix-then-check convergence.                                        *)
(***************************************************************************)
\* C26: for every actual and expected document compared without unique keys,
\* applying the resulting missing and diff change-sets to actual with
\* traverse_yaml_tree and comparing the updated actual with the same expected
\* reports no changes.
C26_FixConverges ==
    fx.status \in {"checked", "raised"}
        => /\ fx.status = "checked"
           /\ fx.second.status = "ok"
           /\ ~fx.second.has_changes

(***************************************************************************)
(* C27. The list accumulator of the blender is never reset.                *)
(***************************************************************************)
\* A sequence is among the entries es.
ListAmong(es) == \E i \in 1..Len(es) : IsList(es[i][2])

\* The auxiliary list of the flat key k is the concatenation of the sequences
\* among the entries es added under k, and is the flat value when the last
\* entry is a sequence.
Accumulated(k, es) ==
    /\ DictHas(lists, k) <=> ListAmong(es)
    /\ DictHas(lists, k) => DictGet(lists, k) = ConcatLists(es)
    /\ (DictHas(flat, k) /\ IsList(es[Len(es)][2])) => DictGet(flat, k) = PyList(DictGet(lists, k))

\* C27: with extend_lists enabled, after any sequence of flatten-on-add calls
\* the auxiliary list recorded for a flat key is the concatenation of every
\* sequence ever added under that key, whatever other values the key received
\* in between; a key whose last value is a sequence holds that list.
C27_AccumulatorNeverReset ==
    (extend_lists /\ AllFlattened)
        => \A k \in DictKeys(lists) \cup DictKeys(flat) : Accumulated(k, EntriesUnder(k))

\* A sequence, then a value that is no sequence, then a sequence under the key a.
C27_Witness ==
    /\ extend_lists
    /\ AllFlattened
    /\ Len(added) = 2
    /\ added[1].doc = << <<ka, PyList(<<PyInt(1)>>)>> >>
    /\ added[2].doc = << <<kEmpty, PyDict(<< <<ka, PyInt(1)>> >>)>>, <<ka, PyList(<<PyInt(2)>>)>> >>
    /\ EntriesUnder(ka) = << <<ka, PyList(<<PyInt(1)>>)>>, <<ka, PyInt(1)>>, <<ka, PyList(<<PyInt(2)>>)>> >>
    /\ DictGet(lists, ka) = <<PyInt(1), PyInt(2)>>
    /\ DictGet(flat, ka) = PyList(<<PyInt(1), PyInt(2)>>)

====
